---- MODULE Spec2Model ----
(***************************************************************************)
(* Model of the BEN / XBEN codec of binary-ensemble: the bit-packed BEN    *)
(* line, the byte-aligned ben32 frame, the streaming encoders and decoders *)
(* of both containers, the random-access reader and the subsampling        *)
(* adapter.  Byte streams are sequences of integers in 0..255; the xz      *)
(* container is a black box that gives back the bytes written into it, cut *)
(* into read chunks of arbitrary size.                                     *)
(***************************************************************************)
EXTENDS Integers, Sequences, FiniteSets, TLC

\* ------------------------------------------------------------------ bounds
MaxLen == 2          \* longest assignment vector fed to an encoder
MaxSamples == 5      \* most samples written to one stream
MaxDistinct == 2     \* most distinct vectors in one stream
MaxXSamples == 3     \* most samples written to one XBEN stream
MaxRecs == 5         \* items of the iterator under a SubsampleDecoder
MaxCount == 2        \* largest repeat count of such an item
MaxIndex == 5        \* largest index, offset, start or end of a Selection
MaxIndices == 3      \* length of the index list given to by_indices
MaxStep == 3         \* largest step of Selection::Every
MaxDmgSamples == 3   \* most samples of a stream that is damaged
MaxCut == 8          \* most bytes cut off the end of a stream
MaxPayload == 2      \* most payload bytes handed to decode_ben_line directly
MaxFrames == 2       \* most frames of a ben32 stream that is scanned directly
MaxRuns == 2         \* most run words of one such frame
MaxTail == 4         \* most values that follow a long run in one vector
SatStart == 65533    \* identical samples already written when a long run
                     \*   is picked up

\* Run values the inputs are drawn from: 1 needs 1 bit, 300 needs 9 bits.
Values == {1, 300}

U16 == 65536

\* ------------------------------------------------------ integer primitives
\* u16::leading_zeros turned into the bit width 16 - leading_zeros.
RECURSIVE BitWidth(_)
BitWidth(x) == IF x = 0 THEN 0 ELSE 1 + BitWidth(x \div 2)

RECURSIVE BitOr(_, _)
BitOr(a, b) ==
    IF a = 0 THEN b
    ELSE IF b = 0 THEN a
    ELSE (IF a % 2 = 1 \/ b % 2 = 1 THEN 1 ELSE 0) + 2 * BitOr(a \div 2, b \div 2)

\* Shifts and the mask `x & !(0xFFFFFFFF << n)` of the encoder, whose u32
\* operands stay below 2^24 (at most 7 carried bits and one 16-bit field),
\* so no bit is ever shifted out of the 32-bit word.
Shl(x, n) == x * (2 ^ n)
Shr(x, n) == x \div (2 ^ n)
LowBits(x, n) == x % (2 ^ n)
AsU8(x) == x % 256
AsU16(x) == x % U16

\* u16::to_be_bytes and u32::to_be_bytes
U16BeBytes(x) == << (x \div 256) % 256, x % 256 >>
\* u32::to_le_bytes in the place of to_be_bytes.
U32LeBytes(x) == << x % 256, (x \div 256) % 256, (x \div 65536) % 256,
                    (x \div 16777216) % 256 >>
U32BeBytes(x) == << (x \div 16777216) % 256, (x \div 65536) % 256,
                    (x \div 256) % 256, x % 256 >>
U16FromBe(b) == b[1] * 256 + b[2]
U32FromBe(b) == b[1] * 16777216 + b[2] * 65536 + b[3] * 256 + b[4]

Max(a, b) == IF a >= b THEN a ELSE b
Min(a, b) == IF a <= b THEN a ELSE b

RECURSIVE SeqMax(_)
SeqMax(s) == IF Len(s) = 1 THEN s[1] ELSE Max(s[1], SeqMax(Tail(s)))

\* ----------------------------------------------------------------- banners
\* b"STANDARD BEN FILE" and b"MKVCHAIN BEN FILE" as ASCII codes.
StandardBanner ==
    << 83, 84, 65, 78, 68, 65, 82, 68, 32, 66, 69, 78, 32, 70, 73, 76, 69 >>
MkvChainBanner ==
    << 77, 75, 86, 67, 72, 65, 73, 78, 32, 66, 69, 78, 32, 70, 73, 76, 69 >>
BannerLen == 17

Banner(v) == IF v = "Standard" THEN StandardBanner ELSE MkvChainBanner

\* ---------------------------------------------------------- RLE primitives
\* utils::assign_to_rle: one left-to-right scan; a position starts a new run
\* when the value differs from the previous one or the run is full.
RECURSIVE assign_to_rle_from(_, _, _)
assign_to_rle_from(v, i, acc) ==
    IF i > Len(v) THEN acc
    ELSE LET n == Len(acc) IN
         IF n > 0 /\ acc[n][1] = v[i] /\ acc[n][2] < U16 - 1
         THEN assign_to_rle_from(v, i + 1,
                  [acc EXCEPT ![n] = << acc[n][1], acc[n][2] + 1 >>])
         ELSE assign_to_rle_from(v, i + 1, Append(acc, << v[i], 1 >>))

assign_to_rle(v) == assign_to_rle_from(v, 1, << >>)

\* utils::rle_to_vec: each (val, len) becomes len copies of val.
RECURSIVE rle_to_vec(_)
rle_to_vec(rle) ==
    IF rle = << >> THEN << >>
    ELSE [i \in 1..rle[1][2] |-> rle[1][1]] \o rle_to_vec(Tail(rle))

\* ------------------------------------------------------------ BEN bit-packer
\* The two `while n_bits_left >= 8` loops of encode_ben_vec_from_rle: push
\* whole bytes off the top of new_val and keep the low n_bits_left bits.
RECURSIVE FlushBytes(_, _, _)
FlushBytes(new_val, n_bits_left, out) ==
    IF n_bits_left >= 8
    THEN LET n == n_bits_left - 8 IN
         FlushBytes(LowBits(new_val, n), n, Append(out, AsU8(Shr(new_val, n))))
    ELSE [new_val |-> new_val, n_bits_left |-> n_bits_left, out |-> out]

\* The packing loop with the last bits left in the low positions of the
\* last byte, without the shift by 8 - remainder_bits.
RECURSIVE PackRuns_padhigh(_, _, _, _, _, _, _)
PackRuns_padhigh(rle, i, max_val_bits, max_len_bits, remainder, remainder_bits, out) ==
    IF i > Len(rle)
    THEN IF remainder_bits > 0 THEN Append(out, AsU8(remainder)) ELSE out
    ELSE LET a == FlushBytes(BitOr(Shl(remainder, max_val_bits), rle[i][1]),
                             remainder_bits + max_val_bits, out)
             b == FlushBytes(BitOr(Shl(a.new_val, max_len_bits), rle[i][2]),
                             a.n_bits_left + max_len_bits, a.out)
         IN PackRuns_padhigh(rle, i + 1, max_val_bits, max_len_bits,
                             b.new_val, b.n_bits_left, b.out)

\* The body of `for (val, len) in rle_vec`.
RECURSIVE PackRuns(_, _, _, _, _, _, _)
PackRuns(rle, i, max_val_bits, max_len_bits, remainder, remainder_bits, out) ==
    IF i > Len(rle)
    THEN IF remainder_bits > 0
         THEN Append(out, AsU8(Shl(remainder, 8 - remainder_bits)))
         ELSE out
    ELSE LET a == FlushBytes(BitOr(Shl(remainder, max_val_bits), rle[i][1]),
                             remainder_bits + max_val_bits, out)
             b == FlushBytes(BitOr(Shl(a.new_val, max_len_bits), rle[i][2]),
                             a.n_bits_left + max_len_bits, a.out)
         IN PackRuns(rle, i + 1, max_val_bits, max_len_bits,
                     b.new_val, b.n_bits_left, b.out)

\* max_val_bits without the `.max(1)`.
MaxValBits_nomin(rle) == BitWidth(SeqMax([i \in 1..Len(rle) |-> rle[i][1]]))

MaxValBits(rle) == Max(BitWidth(SeqMax([i \in 1..Len(rle) |-> rle[i][1]])), 1)
MaxLenBits(rle) == BitWidth(SeqMax([i \in 1..Len(rle) |-> rle[i][2]]))

\* n_bytes rounded down instead of up.
NBytes_floor(rle) ==
    ((MaxValBits(rle) + MaxLenBits(rle)) * Len(rle)) \div 8

NBytes(rle) ==
    LET assign_bits == MaxValBits(rle) + MaxLenBits(rle)
        total == assign_bits * Len(rle)
    IN IF total % 8 = 0 THEN total \div 8 ELSE total \div 8 + 1

\* `.max_by_key(..).unwrap()` panics on an empty run list.
encode_panics(rle) == rle = << >>

\* encode_ben_vec_from_rle, for a run list it does not panic on.
encode_ben_vec_from_rle(rle) ==
    PackRuns(rle, 1, MaxValBits(rle), MaxLenBits(rle), 0, 0,
             << MaxValBits(rle), MaxLenBits(rle) >> \o U32BeBytes(NBytes(rle)))

\* ----------------------------------------------------------- BEN line decoder
\* The u32 shift register `buffer` of decode_ben_line, most significant bit
\* first: Reg[1] is bit 31.
ZeroReg == [i \in 1..32 |-> 0]
\* (byte as u32).to_be() on a little-endian target: the byte moves to bits
\* 31..24.
ByteToBe(byte) == [i \in 1..32 |-> IF i <= 8 THEN (byte \div (2 ^ (8 - i))) % 2 ELSE 0]
RegShr(r, n) == [i \in 1..32 |-> IF i - n >= 1 THEN r[i - n] ELSE 0]
RegShl(r, n) == [i \in 1..32 |-> IF i + n <= 32 THEN r[i + n] ELSE 0]
RegOr(a, b) == [i \in 1..32 |-> IF a[i] = 1 \/ b[i] = 1 THEN 1 ELSE 0]
RECURSIVE RegLow(_, _)
RegLow(r, k) == IF k = 0 THEN 0 ELSE r[33 - k] * (2 ^ (k - 1)) + RegLow(r, k - 1)
\* `x as u16` of a u32
RegAsU16(r) == RegLow(r, 16)

\* `if n_bits_in_buff >= max_val_bits && !val_set {..}`, then the same for
\* the length, then `if val_set && len_set {..}`: the block that appears
\* once after the byte is shifted in and once more inside the while loop.
TakeVal(st, max_val_bits) ==
    IF st.n_bits_in_buff >= max_val_bits /\ ~st.val_set
    THEN [st EXCEPT !.val = RegAsU16(RegShr(st.buffer, 32 - max_val_bits)),
                    !.buffer = RegShl(st.buffer, max_val_bits),
                    !.n_bits_in_buff = st.n_bits_in_buff - max_val_bits,
                    !.val_set = TRUE]
    ELSE st

TakeLen(st, max_len_bits) ==
    IF st.n_bits_in_buff >= max_len_bits /\ st.val_set /\ ~st.len_set
    THEN [st EXCEPT !.len = RegAsU16(RegShr(st.buffer, 32 - max_len_bits)),
                    !.buffer = RegShl(st.buffer, max_len_bits),
                    !.n_bits_in_buff = st.n_bits_in_buff - max_len_bits,
                    !.len_set = TRUE]
    ELSE st

\* The push without the `if len > 0` around it.
PushRun_keepzero(st) ==
    IF st.val_set /\ st.len_set
    THEN [st EXCEPT !.output_rle = Append(st.output_rle, << st.val, st.len >>),
                    !.val_set = FALSE, !.len_set = FALSE]
    ELSE st

PushRun(st) ==
    IF st.val_set /\ st.len_set
    THEN [st EXCEPT !.output_rle = IF st.len > 0
                                   THEN Append(st.output_rle, << st.val, st.len >>)
                                   ELSE st.output_rle,
                    !.val_set = FALSE, !.len_set = FALSE]
    ELSE st

TakeField(st, max_val_bits, max_len_bits) ==
    PushRun(TakeLen(TakeVal(st, max_val_bits), max_len_bits))

\* `while n_bits_in_buff >= max_val_bits + max_len_bits {..}`
RECURSIVE DrainFields(_, _, _)
DrainFields(st, max_val_bits, max_len_bits) ==
    IF st.n_bits_in_buff >= max_val_bits + max_len_bits
    THEN DrainFields(TakeField(st, max_val_bits, max_len_bits),
                     max_val_bits, max_len_bits)
    ELSE st

\* The body of `for (_, &byte) in assign_bits.iter().enumerate()`.
DecodeByte(st, byte, max_val_bits, max_len_bits) ==
    LET s1 == [st EXCEPT
                 !.buffer = RegOr(st.buffer, RegShr(ByteToBe(byte), st.n_bits_in_buff)),
                 !.n_bits_in_buff = st.n_bits_in_buff + 8]
    IN DrainFields(TakeField(s1, max_val_bits, max_len_bits),
                   max_val_bits, max_len_bits)

RECURSIVE DecodeBytes(_, _, _, _, _)
DecodeBytes(st, assign_bits, i, max_val_bits, max_len_bits) ==
    IF i > Len(assign_bits) THEN st.output_rle
    ELSE DecodeBytes(DecodeByte(st, assign_bits[i], max_val_bits, max_len_bits),
                     assign_bits, i + 1, max_val_bits, max_len_bits)

\* decode_ben_line on the n_bytes payload bytes already read.
decode_ben_line(assign_bits, max_val_bits, max_len_bits) ==
    DecodeBytes([buffer |-> ZeroReg, n_bits_in_buff |-> 0, val |-> 0,
                 val_set |-> FALSE, len |-> 0, len_set |-> FALSE,
                 output_rle |-> << >>],
                assign_bits, 1, max_val_bits, max_len_bits)

\* ------------------------------------- decode_ben_line on any header bytes
\* The arithmetic of decode_ben_line where the widths are not those of a
\* line the encoder wrote.  A shift of a u32 by 32 or more, and a u8
\* subtraction or addition that leaves 0..255, panic in a debug build and
\* wrap in a release build (`wrapping_shr`, `wrapping_sub`, ..).
\* decode_ben_line on the payload bytes read, for any widths: kind is "ok"
\* (Ok(output_rle)), "panic", or "hang" (the while loop never ends).
decode_ben_line_build(assign_bits, max_val_bits, max_len_bits, build) ==
    LET ShiftPanics(amount) == build = "debug" /\ amount >= 32
        WrapShift(amount) == amount % 32
        \* `if n_bits_in_buff >= max_val_bits as u16 && !val_set {..}`
        TakeValBuild(st) ==
            IF st.panic \/ ~(st.n_bits_in_buff >= max_val_bits /\ ~st.val_set) THEN st
            ELSE IF build = "debug" /\ (max_val_bits > 32 \/ 32 - max_val_bits >= 32
                                       \/ max_val_bits >= 32)
            THEN [st EXCEPT !.panic = TRUE]
            ELSE [st EXCEPT
                    !.val = RegAsU16(RegShr(st.buffer,
                                            WrapShift((32 - max_val_bits) % 256))),
                    !.buffer = RegShl(st.buffer, WrapShift(max_val_bits)),
                    !.n_bits_in_buff = st.n_bits_in_buff - max_val_bits,
                    !.val_set = TRUE]
        \* `if n_bits_in_buff >= max_len_bits as u16 && val_set && !len_set {..}`
        TakeLenBuild(st) ==
            IF st.panic \/ ~(st.n_bits_in_buff >= max_len_bits /\ st.val_set /\ ~st.len_set)
            THEN st
            ELSE IF build = "debug" /\ (max_len_bits > 32 \/ 32 - max_len_bits >= 32
                                       \/ max_len_bits >= 32)
            THEN [st EXCEPT !.panic = TRUE]
            ELSE [st EXCEPT
                    !.len = RegAsU16(RegShr(st.buffer,
                                            WrapShift((32 - max_len_bits) % 256))),
                    !.buffer = RegShl(st.buffer, WrapShift(max_len_bits)),
                    !.n_bits_in_buff = st.n_bits_in_buff - max_len_bits,
                    !.len_set = TRUE]
        TakeFieldBuild(st) ==
            LET t == TakeLenBuild(TakeValBuild(st))
            IN IF t.panic THEN t ELSE PushRun(t)
        \* `while n_bits_in_buff >= max_val_bits as u16 + max_len_bits as u16 {..}`:
        \* with both widths 0 the condition stays true and nothing changes.
        RECURSIVE DrainFieldsBuild(_)
        DrainFieldsBuild(st) ==
            IF st.panic THEN st
            ELSE IF st.n_bits_in_buff >= max_val_bits + max_len_bits
            THEN LET t == TakeFieldBuild(st) IN
                 IF ~t.panic /\ t = st THEN [st EXCEPT !.hang = TRUE]
                 ELSE DrainFieldsBuild(t)
            ELSE st
        \* The body of the `for` loop over the payload bytes.
        DecodeByteBuild(st, byte) ==
            IF ShiftPanics(st.n_bits_in_buff) THEN [st EXCEPT !.panic = TRUE]
            ELSE
            LET s1 == [st EXCEPT
                         !.buffer = RegOr(st.buffer,
                                          RegShr(ByteToBe(byte),
                                                 WrapShift(st.n_bits_in_buff))),
                         !.n_bits_in_buff = st.n_bits_in_buff + 8]
            IN DrainFieldsBuild(TakeFieldBuild(s1))
        RECURSIVE DecodeBytesBuild(_, _)
        DecodeBytesBuild(st, i) ==
            IF i > Len(assign_bits) \/ st.panic \/ st.hang THEN st
            ELSE DecodeBytesBuild(DecodeByteBuild(st, assign_bits[i]), i + 1)
        \* `(max_val_bits + max_len_bits) as f64` adds two u8 first; the
        \* quotient n_bytes / (sum / 8.0) is infinite when the sum is 0 and
        \* n_bytes is not, `as usize` makes usize::MAX of it and
        \* Vec::with_capacity panics with "capacity overflow".
        capacity_panics ==
            \/ build = "debug" /\ max_val_bits + max_len_bits > 255
            \/ (max_val_bits + max_len_bits) % 256 = 0 /\ Len(assign_bits) > 0
    IN IF capacity_panics
       THEN [kind |-> "panic", output_rle |-> << >>]
       ELSE LET st == DecodeBytesBuild(
                         [buffer |-> ZeroReg, n_bits_in_buff |-> 0, val |-> 0,
                          val_set |-> FALSE, len |-> 0, len_set |-> FALSE,
                          output_rle |-> << >>, panic |-> FALSE, hang |-> FALSE], 1)
            IN [kind |-> IF st.panic THEN "panic" ELSE IF st.hang THEN "hang" ELSE "ok",
                output_rle |-> IF st.panic \/ st.hang THEN << >> ELSE st.output_rle]

\* ------------------------------------------------------------ BEN stream reader
\* Bytes pos+1 .. pos+n of a stream (pos bytes are already consumed).
Bytes(stream, pos, n) == SubSeq(stream, pos + 1, pos + n)
Has(stream, pos, n) == pos + n <= Len(stream)

\* BenDecoder::next with a short payload taken for the end of the stream.
ben_next_shortend(stream, pos, v) ==
    LET none == [kind |-> "none", assignment |-> << >>, count |-> 0, pos |-> pos]
        max_val_bits == stream[pos + 1]
        max_len_bits == stream[pos + 2]
        n_bytes == U32FromBe(Bytes(stream, pos + 2, 4))
        rle == decode_ben_line(Bytes(stream, pos + 6, n_bytes),
                               max_val_bits, max_len_bits)
        after == pos + 6 + n_bytes
    IN IF ~Has(stream, pos, 1) THEN none
       ELSE IF ~Has(stream, pos, 6) THEN [none EXCEPT !.kind = "panic"]
       ELSE IF ~Has(stream, pos + 6, n_bytes) THEN none
       ELSE IF v = "MkvChain"
            THEN IF ~Has(stream, after, 2) THEN [none EXCEPT !.kind = "panic"]
                 ELSE [kind |-> "ok", assignment |-> rle_to_vec(rle),
                       count |-> U16FromBe(Bytes(stream, after, 2)),
                       pos |-> after + 2]
            ELSE [kind |-> "ok", assignment |-> rle_to_vec(rle), count |-> 1,
                  pos |-> after]

\* BenDecoder::next on the reader position pos.  kind is "none" (clean end
\* of stream), "ok", "err" (an io::Error value handed to the consumer) or
\* "panic" (an `.expect(..)` on a short read).
ben_next(stream, pos, v) ==
    LET none == [kind |-> "none", assignment |-> << >>, count |-> 0, pos |-> pos]
        max_val_bits == stream[pos + 1]
        max_len_bits == stream[pos + 2]
        n_bytes == U32FromBe(Bytes(stream, pos + 2, 4))
        rle == decode_ben_line(Bytes(stream, pos + 6, n_bytes),
                               max_val_bits, max_len_bits)
        after == pos + 6 + n_bytes
    IN IF ~Has(stream, pos, 1) THEN none
       ELSE IF ~Has(stream, pos, 6) THEN [none EXCEPT !.kind = "panic"]
       ELSE IF ~Has(stream, pos + 6, n_bytes) THEN [none EXCEPT !.kind = "err"]
       ELSE IF v = "MkvChain"
            THEN IF ~Has(stream, after, 2) THEN [none EXCEPT !.kind = "panic"]
                 ELSE [kind |-> "ok", assignment |-> rle_to_vec(rle),
                       count |-> U16FromBe(Bytes(stream, after, 2)),
                       pos |-> after + 2]
            ELSE [kind |-> "ok", assignment |-> rle_to_vec(rle), count |-> 1,
                  pos |-> after]

\* The `for _ in 0..count` loop of write_all_jsonl: count JSON lines with
\* consecutive sample numbers after sample_count0.
JsonLines(assignment, n, sample_count0) ==
    [i \in 1..n |-> [assignment |-> assignment, sample |-> sample_count0 + i]]

\* --------------------------------------------------------- random-access read
\* write_all_jsonl of the Standard-only BenDecoder that extract_assignment_ben
\* decodes its one-line stream with: next() numbers the sample, one JSON line
\* per record.  status is "ok", "err" or "panic".
RECURSIVE old_write_all_jsonl(_, _, _, _)
old_write_all_jsonl(stream, pos, sample_count0, out) ==
    LET r == ben_next(stream, pos, "Standard") IN
    IF r.kind = "ok"
    THEN old_write_all_jsonl(stream, r.pos, sample_count0 + 1,
             Append(out, [assignment |-> r.assignment, sample |-> sample_count0 + 1]))
    ELSE [status |-> IF r.kind = "none" THEN "ok" ELSE r.kind, lines |-> out]

\* jsonl_decode_ben: BenDecoder::new panics unless the banner is the
\* Standard one.
jsonl_decode_ben(stream) ==
    IF ~Has(stream, 0, BannerLen) \/ Bytes(stream, 0, BannerLen) # StandardBanner
    THEN [status |-> "panic", lines |-> << >>]
    ELSE old_write_all_jsonl(stream, BannerLen, 0, << >>)

ExtResult(kind, assignment, sample_number) ==
    [kind |-> kind, assignment |-> assignment, sample_number |-> sample_number]

\* The `loop` of extract_assignment_ben: one header and payload per turn,
\* decoded only when r_sample is the wanted sample.
RECURSIVE extract_loop(_, _, _, _)
extract_loop(stream, pos, r_sample, sample_number) ==
    LET max_val_bits == stream[pos + 1]
        max_len_bits == stream[pos + 2]
        n_bytes == U32FromBe(Bytes(stream, pos + 2, 4))
        assign_bits == Bytes(stream, pos + 6, n_bytes)
        tmp_reader == (StandardBanner \o << max_val_bits, max_len_bits >>)
                          \o U32BeBytes(n_bytes) \o assign_bits
        decoded == jsonl_decode_ben(tmp_reader)
    IN IF ~Has(stream, pos, 1) THEN ExtResult("SampleNotFound", << >>, r_sample)
       ELSE IF ~Has(stream, pos, 6) \/ ~Has(stream, pos + 6, n_bytes)
       THEN ExtResult("IoError", << >>, 0)
       ELSE IF r_sample = sample_number
       THEN IF decoded.status = "ok" /\ Len(decoded.lines) = 1
            THEN ExtResult("Ok",
                     [i \in 1..Len(decoded.lines[1].assignment) |->
                         AsU16(decoded.lines[1].assignment[i])], 0)
            ELSE IF decoded.status = "ok" THEN ExtResult("JsonError", << >>, 0)
            ELSE IF decoded.status = "err" THEN ExtResult("IoError", << >>, 0)
            ELSE ExtResult("panic", << >>, 0)
       ELSE extract_loop(stream, pos + 6 + n_bytes, r_sample + 1, sample_number)

\* The sample counter started at 0 instead of 1.
extract_assignment_ben_from0(stream, sample_number) ==
    IF sample_number = 0 THEN ExtResult("InvalidSampleNumber", << >>, 0)
    ELSE IF ~Has(stream, 0, BannerLen) THEN ExtResult("IoError", << >>, 0)
    ELSE IF Bytes(stream, 0, BannerLen) # StandardBanner
    THEN ExtResult("IoError", << >>, 0)
    ELSE extract_loop(stream, BannerLen, 0, sample_number)

\* The sample number checked only after the banner has been read.
extract_assignment_ben_latecheck(stream, sample_number) ==
    IF ~Has(stream, 0, BannerLen) THEN ExtResult("IoError", << >>, 0)
    ELSE IF Bytes(stream, 0, BannerLen) # StandardBanner
    THEN ExtResult("IoError", << >>, 0)
    ELSE IF sample_number = 0 THEN ExtResult("InvalidSampleNumber", << >>, 0)
    ELSE extract_loop(stream, BannerLen, 1, sample_number)

extract_assignment_ben(stream, sample_number) ==
    IF sample_number = 0 THEN ExtResult("InvalidSampleNumber", << >>, 0)
    ELSE IF ~Has(stream, 0, BannerLen) THEN ExtResult("IoError", << >>, 0)
    ELSE IF Bytes(stream, 0, BannerLen) # StandardBanner
    THEN ExtResult("IoError", << >>, 0)
    ELSE extract_loop(stream, BannerLen, 1, sample_number)

\* ------------------------------------------------------------------- ben32
\* The run loop of encode_ben32_line from element i on, with the run
\* (prev_assign, cnt) open; `count += 1` is a u16 addition.
RECURSIVE Ben32Runs(_, _, _, _, _)
Ben32Runs(assign_vec, i, prev_assign, cnt, ret) ==
    IF i > Len(assign_vec)
    THEN IF cnt > 0 THEN ret \o U16BeBytes(prev_assign) \o U16BeBytes(cnt) ELSE ret
    ELSE LET assign == AsU16(assign_vec[i]) IN
         IF i = 1 THEN Ben32Runs(assign_vec, 2, assign, 1, ret)
         ELSE IF assign = prev_assign
         THEN Ben32Runs(assign_vec, i + 1, prev_assign, AsU16(cnt + 1), ret)
         ELSE Ben32Runs(assign_vec, i + 1, assign, 1,
                        ret \o U16BeBytes(prev_assign) \o U16BeBytes(cnt))

\* Whether that loop comes to `count += 1` with count = 65535, where a
\* debug build panics.
RECURSIVE Ben32Overflows(_, _, _, _)
Ben32Overflows(assign_vec, i, prev_assign, cnt) ==
    IF i > Len(assign_vec) THEN FALSE
    ELSE LET assign == AsU16(assign_vec[i]) IN
         IF i = 1 THEN Ben32Overflows(assign_vec, 2, assign, 1)
         ELSE IF assign = prev_assign
         THEN cnt = U16 - 1 \/ Ben32Overflows(assign_vec, i + 1, prev_assign, cnt + 1)
         ELSE Ben32Overflows(assign_vec, i + 1, assign, 1)

\* encode_ben32_line: one word (value << 16 | length) per run, then the
\* zero word.
encode_ben32_line(assign_vec) ==
    Ben32Runs(assign_vec, 1, 0, 0, << >>) \o << 0, 0, 0, 0 >>

IsZeroWord(overflow, i) ==
    /\ overflow[i - 2] = 0 /\ overflow[i - 1] = 0
    /\ overflow[i] = 0 /\ overflow[i + 1] = 0

\* The indices `(3..end).step_by(step)` of the scans, as 0-based i.
ScanIndices(end, step) == {i \in 3..(end - 1) : (i - 3) % step = 0}

\* The terminators the Standard scan `for i in (3..overflow.len()).step_by(4)`
\* finds, as the 0-based index i of their last byte.
StandardHits(overflow) ==
    {i \in ScanIndices(Len(overflow), 4) : IsZeroWord(overflow, i)}

\* The MkvChain scan made with `step_by(1)`.
MkvChainHits_step1(overflow, end) ==
    {i \in ScanIndices(end, 1) : IsZeroWord(overflow, i)}

\* The terminators the MkvChain scan finds when it runs over
\* `(3..end).step_by(2)`.
MkvChainHits(overflow, end) ==
    {i \in ScanIndices(end, 2) : IsZeroWord(overflow, i)}

SetMax(S) == CHOOSE x \in S : \A y \in S : y <= x
SetMin(S) == CHOOSE x \in S : \A y \in S : x <= y

\* `line_count += n_lines as usize` over the terminators found: the sum of
\* the repeat counts that follow them.
RECURSIVE SumLines(_, _)
SumLines(overflow, hits) ==
    IF hits = {} THEN 0
    ELSE LET i == SetMin(hits) IN
         U16FromBe(<< overflow[i + 2], overflow[i + 3] >>)
             + SumLines(overflow, hits \ {i})

\* The outcome of one scan: last_valid_assignment and the amount added to
\* line_count.
ScanStandard(overflow) ==
    LET hits == StandardHits(overflow) IN
    [last_valid_assignment |-> IF hits = {} THEN 0 ELSE SetMax(hits) + 1,
     lines |-> Cardinality(hits)]

ScanMkvChain(overflow, end) ==
    LET hits == MkvChainHits(overflow, end)
    IN [last_valid_assignment |-> IF hits = {} THEN 0 ELSE SetMax(hits) + 3,
        lines |-> SumLines(overflow, hits)]

\* decode_ben32_line on the bytes after pos: words until the zero word,
\* then the 2-byte repeat count in MkvChain.
RECURSIVE decode_ben32_line(_, _, _, _)
decode_ben32_line(stream, pos, v, output_vec) ==
    LET fail(k) == [kind |-> k, assignment |-> << >>, count |-> 0, pos |-> pos]
        value == U16FromBe(Bytes(stream, pos, 2))
        cnt == U16FromBe(Bytes(stream, pos + 2, 2))
    IN IF ~Has(stream, pos, 4) THEN fail("err")
       ELSE IF Bytes(stream, pos, 4) = << 0, 0, 0, 0 >>
       THEN IF v = "MkvChain"
            THEN IF ~Has(stream, pos + 4, 2) THEN fail("panic")
                 ELSE [kind |-> "ok", assignment |-> output_vec,
                       count |-> U16FromBe(Bytes(stream, pos + 4, 2)),
                       pos |-> pos + 6]
            ELSE [kind |-> "ok", assignment |-> output_vec, count |-> 1,
                  pos |-> pos + 4]
       ELSE decode_ben32_line(stream, pos + 4, v,
                              output_vec \o [k \in 1..cnt |-> value])

\* jsonl_decode_ben32: frames until the reader is exhausted; an
\* UnexpectedEof from decode_ben32_line ends it with Ok.
RECURSIVE jsonl_decode_ben32(_, _, _, _, _)
jsonl_decode_ben32(stream, pos, sample0, v, out) ==
    LET r == decode_ben32_line(stream, pos, v, << >>) IN
    IF r.kind = "ok"
    THEN jsonl_decode_ben32(stream, r.pos, sample0 + r.count, v,
                            out \o JsonLines(r.assignment, r.count, sample0))
    ELSE [status |-> IF r.kind = "err" THEN "ok" ELSE r.kind, lines |-> out]

\* The runs of one ben32 frame, from the words before its zero word.
RECURSIVE Ben32Words(_, _, _)
Ben32Words(stream, pos, runs) ==
    IF ~Has(stream, pos, 4) \/ Bytes(stream, pos, 4) = << 0, 0, 0, 0 >>
    THEN [runs |-> runs, pos |-> pos]
    ELSE Ben32Words(stream, pos + 4,
             Append(runs, << U16FromBe(Bytes(stream, pos, 2)),
                             U16FromBe(Bytes(stream, pos + 2, 2)) >>))

\* translate::ben32_to_ben_lines: each frame becomes a BEN line with
\* freshly computed widths; the MkvChain repeat suffix is copied.
RECURSIVE ben32_to_ben_lines(_, _, _, _)
ben32_to_ben_lines(stream, pos, v, out) ==
    LET w == Ben32Words(stream, pos, << >>)
        suffix == IF v = "MkvChain" THEN 2 ELSE 0
    IN IF ~Has(stream, pos, 1) THEN [status |-> "ok", bytes |-> out]
       ELSE IF ~Has(stream, w.pos, 4 + suffix)
       THEN [status |-> "err", bytes |-> out]
       ELSE IF encode_panics(w.runs) THEN [status |-> "panic", bytes |-> out]
       ELSE ben32_to_ben_lines(stream, w.pos + 4 + suffix, v,
                out \o encode_ben_vec_from_rle(w.runs)
                    \o Bytes(stream, w.pos + 4, suffix))

\* XBenDecoder::pop_frame_from_overflow: the first complete frame, if any.
pop_frame_from_overflow(overflow, v) ==
    LET none == [found |-> FALSE, end |-> 0, count |-> 0]
        shits == StandardHits(overflow)
        mhits == MkvChainHits(overflow, Max(Len(overflow) - 2, 0))
    IN IF v = "Standard"
       THEN IF Len(overflow) < 4 \/ shits = {} THEN none
            ELSE [found |-> TRUE, end |-> SetMin(shits) + 1, count |-> 1]
       ELSE IF Len(overflow) < 6 \/ mhits = {} THEN none
            ELSE LET i == SetMin(mhits) IN
                 [found |-> TRUE, end |-> i + 3,
                  count |-> U16FromBe(<< overflow[i + 2], overflow[i + 3] >>)]

\* ------------------------------------------------------------------ state
VARIABLES
    variant,          \* BenEncoder.variant / XBenEncoder.variant
    previous_sample,  \* the held packed line
    count,            \* the held repeat count (u16)
    enc_pc,           \* "open", "dropped", "closed" (PyBenEncoder::close)
                      \*   or "panicked"; "damaged" once the finished stream
                      \*   was cut or given another header; "converted"
                      \*   or "convert_err" once ben_encode_xben returned
                      \*   Ok or Err on the finished stream; "none"
                      \*   without an encoder
    written,          \* history: the assignment vectors the actions passed
                      \*   to the encoder
    n_written,        \* history: how many samples were passed to the encoder
    ben,              \* the bytes of the BEN stream (the encoder's writer)
    dec_pc,           \* BenDecoder: "unopened", "open", "done", "err", "panic",
                      \*   "invalid" (InvalidFileFormat), "io" (short banner)
    dec_variant,      \* BenDecoder.variant
    rpos,             \* bytes of `ben` the BenDecoder's reader has consumed
    dec_impl,         \* which BenDecoder reads: "ben" (src/ben/src/decode)
                      \*   or "src" (src/src/decode)
    init_error,       \* the DecoderInitError BenDecoder::new returned
    sample_count,     \* BenDecoder.sample_count
    records,          \* the (assignment, count) records yielded by next()
    jsonl,            \* the JSON lines written by write_all_jsonl
    ext,              \* the last extract_assignment_ben call: its source, its
                      \*   sample number and what it returned
    xz,               \* the bytes written into the XzEncoder, which are the
                      \*   bytes the XzDecoder hands back
    x_consumer,       \* which XBEN reader runs: "to_ben" (decode_xben_to_ben),
                      \*   "to_jsonl" (decode_xben_to_jsonl), "XBenDecoder",
                      \*   or "none"
    x_pc,             \* "unopened", "reading", "done" (Ok / None), "err",
                      \*   "panic"
    x_variant,        \* the variant read from the banner
    xpos,             \* decompressed bytes handed out by the XzDecoder
    overflow,         \* the overflow buffer
    line_count,       \* line_count of the reframing loop
    starting_sample,  \* starting_sample of decode_xben_to_jsonl
    x_records,        \* the records XBenDecoder::next yielded
    x_jsonl,          \* the JSON lines decode_xben_to_jsonl wrote
    xz_error,         \* history: a read of the XzDecoder returned Err
    up,               \* the items of the iterator under the SubsampleDecoder
    up_pos,           \* how many of them it has pulled
    sel,              \* the Selection the SubsampleDecoder was built with
    sel_iter,         \* Selection::Indices: the indices not yet consumed
    sub_sample,       \* SubsampleDecoder.sample
    sub_out,          \* the items SubsampleDecoder::next returned
    sub_pc,           \* "unbuilt", "iter", or "done" once next returned None
    cli,              \* one run of the ben command line tool: where main
                      \*   is, its arguments, why it stopped and the exit
                      \*   status of the process
    call              \* the last direct call of a line-level function
                      \*   (decode_ben_line, encode_ben32_line): its
                      \*   arguments and what it returned

vars == << variant, previous_sample, count, enc_pc, written, n_written, ben,
           dec_pc, dec_variant, rpos, dec_impl, init_error, sample_count,
           records, jsonl, ext,
           xz, x_consumer, x_pc, x_variant, xpos, overflow, line_count,
           starting_sample, x_records, x_jsonl, xz_error,
           up, up_pos, sel, sel_iter, sub_sample, sub_out, sub_pc, cli, call >>

subVars == << up, up_pos, sel, sel_iter, sub_sample, sub_out, sub_pc >>

xVars == << xz, x_consumer, x_pc, x_variant, xpos, overflow, line_count,
            starting_sample, x_records, x_jsonl, xz_error >>

encVars == << variant, previous_sample, count, enc_pc, written, n_written, ben >>
decVars == << dec_pc, dec_variant, rpos, dec_impl, init_error, sample_count,
             records, jsonl >>

Variants == {"Standard", "MkvChain"}

RECURSIVE SeqsUpTo(_, _)
SeqsUpTo(S, n) ==
    IF n = 0 THEN {<< >>}
    ELSE LET shorter == SeqsUpTo(S, n - 1)
         IN shorter \cup {Append(q, x) : q \in {r \in shorter : Len(r) = n - 1}, x \in S}

\* The "assignment" arrays of the input JSON lines.
Vectors == SeqsUpTo(Values, MaxLen)

Range(s) == {s[i] : i \in 1..Len(s)}

\* The sources a random-access read is tried on: the finished stream, no
\* bytes at all, a banner cut short, and the stream behind a wrong banner.
XzMagic == << 253, 55, 122, 88, 90, 0 >>
Source(kind) ==
    CASE kind = "stream" -> ben
      [] kind = "empty" -> << >>
      [] kind = "short" -> SubSeq(ben, 1, BannerLen - 1)
      [] OTHER -> XzMagic \o SubSeq(ben, Len(XzMagic) + 1, Len(ben))

NoExt == [source |-> "none", n |-> 0, res |-> ExtResult("none", << >>, 0)]

DecStart ==
    /\ ext = NoExt
    /\ dec_pc = "unopened"
    /\ dec_variant = "Standard"
    /\ rpos = 0
    /\ sample_count = 0
    /\ records = << >>
    /\ jsonl = << >>

\* DecoderInitError: InvalidFileFormat carries the 17 bytes read.
InitError(kind, header) == [kind |-> kind, header |-> header]

\* No BenDecoder has been built; the one of implementation impl will be.
DecInitFor(impl) ==
    /\ dec_impl = impl
    /\ init_error = InitError("none", << >>)
    /\ DecStart

\* The pipelines use the BenDecoder of src/ben/src/decode.
DecInit == DecInitFor("ben")


Selection(kind, indices, a, b) ==
    [kind |-> kind, indices |-> indices, step |-> a, offset |-> b,
     start |-> a, end |-> b]

\* The command line tool has not been started.
CliInit ==
    cli = [pc |-> "idle", mode |-> "none", input_ext |-> "none",
           output_file |-> FALSE, sample_number |-> FALSE, print |-> FALSE,
           failure |-> "none", status |-> 0]

\* No line-level function has been called directly.
CallInit == call = [f |-> "none"]

\* No SubsampleDecoder has been built.
SubInit ==
    /\ up = << >>
    /\ up_pos = 0
    /\ sel = Selection("none", << >>, 0, 0)
    /\ sel_iter = << >>
    /\ sub_sample = 0
    /\ sub_out = << >>
    /\ sub_pc = "unbuilt"

\* No XBEN reader has been opened.
XInit ==
    /\ x_pc = "unopened"
    /\ x_variant = "Standard"
    /\ xpos = 0
    /\ overflow = << >>
    /\ line_count = 0
    /\ starting_sample = 0
    /\ x_records = << >>
    /\ x_jsonl = << >>
    /\ xz_error = FALSE

\* BenEncoder::new: the banner is written, nothing is held.
Init ==
    /\ variant \in Variants
    /\ previous_sample = << >>
    /\ count = 0
    /\ enc_pc = "open"
    /\ written = << >>
    /\ n_written = 0
    /\ ben = Banner(variant)
    /\ DecInit
    /\ XInit
    /\ SubInit
    /\ CliInit
    /\ CallInit
    /\ xz = << >>
    /\ x_consumer = "none"

\* The held group written without its repeat count.
HeldGroup_nocount ==
    IF variant = "MkvChain" /\ count > 0 THEN previous_sample ELSE << >>

\* The bytes Drop for BenEncoder writes: the held line and its count.
HeldGroup ==
    IF variant = "MkvChain" /\ count > 0
    THEN previous_sample \o U16BeBytes(count)
    ELSE << >>

\* `self.count += 1` on a u16: a debug build panics on overflow, a release
\* build wraps around.
Builds == {"debug", "release"}

\* write_rle closing the held group at every sample, equal to the held line
\* or not.
write_rle_nogroup(rle_vec) ==
    IF encode_panics(rle_vec)
    THEN /\ enc_pc' = "panicked"
         /\ ben' = ben \o HeldGroup
         /\ UNCHANGED << previous_sample, count >>
    ELSE LET encoded == encode_ben_vec_from_rle(rle_vec) IN
         IF variant = "Standard"
         THEN /\ ben' = ben \o encoded
              /\ UNCHANGED << previous_sample, count, enc_pc >>
         ELSE /\ ben' = IF count > 0
                        THEN ben \o previous_sample \o U16BeBytes(count)
                        ELSE ben
              /\ previous_sample' = encoded
              /\ count' = 1
              /\ UNCHANGED enc_pc

\* write_rle flushing the held line without its repeat count when the line
\* changes.
write_rle_nocount(rle_vec) ==
    IF encode_panics(rle_vec)
    THEN /\ enc_pc' = "panicked"
         /\ ben' = ben \o HeldGroup
         /\ UNCHANGED << previous_sample, count >>
    ELSE LET encoded == encode_ben_vec_from_rle(rle_vec) IN
         IF variant = "Standard"
         THEN /\ ben' = ben \o encoded
              /\ UNCHANGED << previous_sample, count, enc_pc >>
         ELSE IF encoded = previous_sample
         THEN /\ count' = AsU16(count + 1)
              /\ UNCHANGED << previous_sample, enc_pc, ben >>
         ELSE /\ ben' = IF count > 0 THEN ben \o previous_sample ELSE ben
              /\ previous_sample' = encoded
              /\ count' = 1
              /\ UNCHANGED enc_pc

\* BenEncoder::write_rle.  A panic unwinds through the owner of the encoder,
\* which runs Drop.
write_rle(rle_vec) ==
    IF encode_panics(rle_vec)
    THEN /\ enc_pc' = "panicked"
         /\ ben' = ben \o HeldGroup
         /\ UNCHANGED << previous_sample, count >>
    ELSE LET encoded == encode_ben_vec_from_rle(rle_vec) IN
         IF variant = "Standard"
         THEN /\ ben' = ben \o encoded
              /\ UNCHANGED << previous_sample, count, enc_pc >>
         ELSE IF encoded = previous_sample
         THEN \E build \in IF count = U16 - 1 THEN Builds ELSE {"release"} :
                 IF count = U16 - 1 /\ build = "debug"
                 THEN /\ enc_pc' = "panicked"
                      /\ ben' = ben \o HeldGroup
                      /\ UNCHANGED << previous_sample, count >>
                 ELSE /\ count' = AsU16(count + 1)
                      /\ UNCHANGED << previous_sample, enc_pc, ben >>
         ELSE /\ ben' = IF count > 0
                        THEN ben \o previous_sample \o U16BeBytes(count)
                        ELSE ben
              /\ previous_sample' = encoded
              /\ count' = 1
              /\ UNCHANGED enc_pc

\* BenEncoder::write_json_value with the "assignment" array of one JSON
\* line (each element `as u16`), as jsonl_encode_ben calls it per line.
write_json_value(assign_vec) ==
    /\ enc_pc = "open"
    /\ x_consumer = "none"
    /\ Len(written) < MaxSamples
    /\ Cardinality(Range(written) \cup {assign_vec}) <= MaxDistinct
    /\ write_rle(assign_to_rle([i \in 1..Len(assign_vec) |-> AsU16(assign_vec[i])]))
    /\ written' = Append(written, assign_vec)
    /\ n_written' = n_written + 1
    /\ UNCHANGED << call, cli, subVars, variant, decVars, ext, xVars >>

\* Drop for BenEncoder, at the end of jsonl_encode_ben.
BenEncoder_drop ==
    /\ enc_pc = "open"
    /\ x_consumer = "none"
    /\ ben' = ben \o HeldGroup
    /\ enc_pc' = "dropped"
    /\ UNCHANGED << call, cli, subVars, variant, previous_sample, count, written, n_written,
                    decVars, ext, xVars >>

\* The BEN stream is complete: its BenEncoder was dropped, or
\* decode_xben_to_ben returned Ok.
BenStreamReady ==
    IF x_consumer = "none" THEN enc_pc \in {"dropped", "closed", "damaged"}
    ELSE x_consumer = "to_ben" /\ x_pc = "done"

\* BenDecoder::new on the finished stream.
BenDecoder_new ==
    /\ BenStreamReady
    /\ dec_pc = "unopened"
    /\ dec_impl = "ben"
    /\ ext = NoExt
    /\ IF ~Has(ben, 0, BannerLen)
       THEN /\ dec_pc' = "io"
            /\ init_error' = InitError("Io", << >>)
            /\ UNCHANGED << dec_variant, rpos >>
       ELSE IF Bytes(ben, 0, BannerLen) = StandardBanner
       THEN /\ dec_pc' = "open" /\ dec_variant' = "Standard" /\ rpos' = BannerLen
            /\ UNCHANGED init_error
       ELSE IF Bytes(ben, 0, BannerLen) = MkvChainBanner
       THEN /\ dec_pc' = "open" /\ dec_variant' = "MkvChain" /\ rpos' = BannerLen
            /\ UNCHANGED init_error
       ELSE /\ dec_pc' = "invalid" /\ rpos' = BannerLen
            /\ init_error' = InitError("InvalidFileFormat", Bytes(ben, 0, BannerLen))
            /\ UNCHANGED dec_variant
    /\ UNCHANGED << call, cli, subVars, dec_impl, sample_count, records, jsonl, encVars, ext,
                    xVars >>

\* One turn of the `while let Some(..) = self.next()` loop of
\* write_all_jsonl: BenDecoder::next, then count JSON lines.
BenDecoder_next ==
    /\ dec_pc = "open"
    /\ dec_impl = "ben"
    /\ LET r == ben_next(ben, rpos, dec_variant) IN
         /\ dec_pc' = CASE r.kind = "ok" -> "open"
                         [] r.kind = "none" -> "done"
                         [] r.kind = "err" -> "err"
                         [] OTHER -> "panic"
         /\ rpos' = r.pos
         /\ records' = IF r.kind = "ok"
                       THEN Append(records, << r.assignment, r.count >>)
                       ELSE records
         /\ jsonl' = IF r.kind = "ok"
                     THEN jsonl \o JsonLines(r.assignment, r.count, sample_count)
                     ELSE jsonl
         /\ sample_count' = IF r.kind = "ok" THEN sample_count + r.count
                            ELSE sample_count
    /\ UNCHANGED << call, cli, subVars, dec_variant, dec_impl, init_error, encVars, ext,
                    xVars >>

\* One call of extract_assignment_ben(reader, sample_number) on a source
\* derived from the finished stream.
ExtractAssignment(kind, sample_number) ==
    /\ BenStreamReady
    /\ x_consumer = "none"
    /\ dec_pc = "unopened"
    /\ ext = NoExt
    /\ ext' = [source |-> kind, n |-> sample_number,
               res |-> extract_assignment_ben(Source(kind), sample_number)]
    /\ UNCHANGED << call, cli, subVars, encVars, decVars, xVars >>

Next ==
    \/ \E assign_vec \in Vectors : write_json_value(assign_vec)
    \/ BenEncoder_drop
    \/ BenDecoder_new
    \/ BenDecoder_next
    \/ \E kind \in {"stream", "empty", "short", "xz"}, n \in 0..(MaxSamples + 1) : ExtractAssignment(kind, n)

Spec == Init /\ [][Next]_vars

\* ------------------------------------------------------------ XBEN pipeline
Consumers == {"to_ben", "to_jsonl", "XBenDecoder"}

\* XBenEncoder::new inside jsonl_encode_xben: the banner goes into the xz
\* stream; one of the three XBEN readers will read the finished stream.
InitX ==
    /\ variant \in Variants
    /\ previous_sample = << >>
    /\ count = 0
    /\ enc_pc = "open"
    /\ written = << >>
    /\ n_written = 0
    /\ ben = << >>
    /\ DecInit
    /\ XInit
    /\ SubInit
    /\ CliInit
    /\ CallInit
    /\ xz = Banner(variant)
    /\ x_consumer \in Consumers

\* XBenEncoder::write_json_value with the "assignment" array of one JSON
\* line, as jsonl_encode_xben calls it per line.
XBenEncoder_write_json_value(assign_vec) ==
    /\ enc_pc = "open"
    /\ x_consumer # "none"
    /\ assign_vec # << >>
    /\ Len(written) < MaxXSamples
    /\ Cardinality(Range(written) \cup {assign_vec}) <= MaxDistinct
    /\ LET encoded == encode_ben32_line(assign_vec) IN
         IF variant = "Standard"
         THEN /\ xz' = xz \o encoded
              /\ UNCHANGED << previous_sample, count, enc_pc >>
         ELSE IF encoded = previous_sample
         THEN \E build \in IF count = U16 - 1 THEN Builds ELSE {"release"} :
                 IF count = U16 - 1 /\ build = "debug"
                 THEN /\ enc_pc' = "panicked"
                      /\ xz' = xz \o HeldGroup
                      /\ UNCHANGED << previous_sample, count >>
                 ELSE /\ count' = AsU16(count + 1)
                      /\ UNCHANGED << previous_sample, enc_pc, xz >>
         ELSE /\ xz' = IF count > 0
                       THEN xz \o previous_sample \o U16BeBytes(count)
                       ELSE xz
              /\ previous_sample' = encoded
              /\ count' = 1
              /\ UNCHANGED enc_pc
    /\ written' = Append(written, assign_vec)
    /\ n_written' = n_written + 1
    /\ UNCHANGED << xz_error, call, cli, subVars, variant, ben, decVars, ext, x_consumer, x_pc, x_variant,
                    xpos, overflow, line_count, starting_sample, x_records,
                    x_jsonl >>

\* Drop for XBenEncoder at the end of jsonl_encode_xben; the XzEncoder is
\* finished when it is dropped in turn.
XBenEncoder_drop ==
    /\ enc_pc = "open"
    /\ x_consumer # "none"
    /\ xz' = xz \o HeldGroup
    /\ enc_pc' = "dropped"
    /\ UNCHANGED << xz_error, call, cli, subVars, variant, previous_sample, count, written, n_written, ben,
                    decVars, ext, x_consumer, x_pc, x_variant, xpos, overflow,
                    line_count, starting_sample, x_records, x_jsonl >>

\* The banner check shared by decode_xben_to_ben, decode_xben_to_jsonl and
\* XBenDecoder::new: read_exact of 17 bytes, then the match on them.
BannerVariant(stream) ==
    IF ~Has(stream, 0, BannerLen) THEN "io"
    ELSE IF Bytes(stream, 0, BannerLen) = StandardBanner THEN "Standard"
    ELSE IF Bytes(stream, 0, BannerLen) = MkvChainBanner THEN "MkvChain"
    ELSE "invalid"

\* The head of decode_xben_to_ben, decode_xben_to_jsonl or XBenDecoder::new,
\* on the finished xz stream; decode_xben_to_ben copies the banner.
XOpen ==
    /\ enc_pc \in {"dropped", "damaged", "converted"}
    /\ x_consumer \in Consumers
    /\ x_pc = "unopened"
    /\ LET v == BannerVariant(xz) IN
         IF v \in Variants
         THEN /\ x_pc' = "reading"
              /\ x_variant' = v
              /\ xpos' = BannerLen
              /\ ben' = IF x_consumer = "to_ben" THEN Banner(v) ELSE ben
         ELSE /\ x_pc' = "err"
              /\ UNCHANGED << x_variant, xpos, ben >>
    /\ UNCHANGED << xz_error, call, cli, subVars, variant, previous_sample, count, enc_pc, written, n_written,
                    decVars, ext, xz, x_consumer, overflow, line_count,
                    starting_sample, x_records, x_jsonl >>

\* One turn of the `while let Ok(count) = decoder.read(&mut buffer)` loop of
\* decode_xben_to_ben in which the XzDecoder hands out n >= 1 bytes.
\* `overflow.len() - 2` is a usize subtraction: with fewer than 2 bytes a
\* debug build panics on it and a release build wraps to a range whose
\* first index 3 is out of bounds, which panics too.
decode_xben_to_ben_read(n) ==
    /\ x_consumer = "to_ben"
    /\ x_pc = "reading"
    /\ LET ov == overflow \o Bytes(xz, xpos, n)
           sc == IF x_variant = "Standard" THEN ScanStandard(ov)
                 ELSE ScanMkvChain(ov, Len(ov) - 2)
           last_valid_assignment == sc.last_valid_assignment
           r == ben32_to_ben_lines(SubSeq(ov, 1, last_valid_assignment), 0,
                                   x_variant, << >>)
       IN /\ xpos' = xpos + n
          /\ IF x_variant = "MkvChain" /\ Len(ov) < 2
             THEN /\ x_pc' = "panic"
                  /\ overflow' = ov
                  /\ UNCHANGED << ben, line_count >>
             ELSE IF last_valid_assignment = 0
             THEN /\ overflow' = ov
                  /\ UNCHANGED << ben, line_count, x_pc >>
             ELSE /\ line_count' = line_count + sc.lines
                  /\ ben' = ben \o r.bytes
                  /\ IF r.status = "ok"
                     THEN /\ overflow' = SubSeq(ov, last_valid_assignment + 1, Len(ov))
                          /\ UNCHANGED x_pc
                     ELSE /\ x_pc' = r.status
                          /\ overflow' = ov
    /\ UNCHANGED << xz_error, call, cli, subVars, variant, previous_sample, count, enc_pc,
                    written, n_written, decVars, ext, xz, x_consumer, x_variant,
                    starting_sample, x_records, x_jsonl >>

\* The same loop in decode_xben_to_jsonl, whose MkvChain scan ends at
\* `overflow.len().saturating_sub(2)`.
decode_xben_to_jsonl_read(n) ==
    /\ x_consumer = "to_jsonl"
    /\ x_pc = "reading"
    /\ LET ov == overflow \o Bytes(xz, xpos, n)
           sc == IF x_variant = "Standard" THEN ScanStandard(ov)
                 ELSE ScanMkvChain(ov, Max(Len(ov) - 2, 0))
           last_valid_assignment == sc.last_valid_assignment
           r == jsonl_decode_ben32(SubSeq(ov, 1, last_valid_assignment), 0,
                                   starting_sample, x_variant, << >>)
       IN /\ xpos' = xpos + n
          /\ IF last_valid_assignment = 0
             THEN /\ overflow' = ov
                  /\ UNCHANGED << x_jsonl, line_count, starting_sample, x_pc >>
             ELSE /\ line_count' = line_count + sc.lines
                  /\ x_jsonl' = x_jsonl \o r.lines
                  /\ IF r.status = "ok"
                     THEN /\ overflow' = SubSeq(ov, last_valid_assignment + 1, Len(ov))
                          /\ starting_sample' = line_count + sc.lines
                          /\ UNCHANGED x_pc
                     ELSE /\ x_pc' = r.status
                          /\ overflow' = ov
                          /\ UNCHANGED starting_sample
    /\ UNCHANGED << xz_error, call, cli, subVars, encVars, decVars, ext, xz, x_consumer, x_variant, x_records >>

\* The turn of either loop in which the XzDecoder reports end of stream:
\* `count == 0` breaks the loop and the function returns Ok(()).
decode_xben_eof ==
    /\ x_consumer \in {"to_ben", "to_jsonl"}
    /\ x_pc = "reading"
    /\ xpos = Len(xz)
    /\ x_pc' = "done"
    /\ UNCHANGED << xz_error, call, cli, subVars, encVars, decVars, ext, xz, x_consumer, x_variant, xpos,
                    overflow, line_count, starting_sample, x_records, x_jsonl >>

\* One call of XBenDecoder::next.  The call pops a frame that is already
\* complete; otherwise it reads until the overflow holds one, and the reads
\* of the call together hand out m bytes, or it reads to the end of the
\* stream.
XBenDecoder_next(m) ==
    /\ x_consumer = "XBenDecoder"
    /\ x_pc = "reading"
    /\ LET have == pop_frame_from_overflow(overflow, x_variant)
           ov == overflow \o Bytes(xz, xpos, m)
           f == pop_frame_from_overflow(ov, x_variant)
           res == decode_ben32_line(SubSeq(ov, 1, f.end), 0, x_variant, << >>)
       IN /\ (m = 0) = (have.found \/ xpos = Len(xz))
          /\ f.found \/ xpos + m = Len(xz)
          /\ xpos' = xpos + m
          /\ IF f.found
             THEN /\ overflow' = SubSeq(ov, f.end + 1, Len(ov))
                  /\ IF res.kind = "ok"
                     THEN /\ x_records' = Append(x_records, << res.assignment, f.count >>)
                          /\ UNCHANGED x_pc
                     ELSE /\ x_pc' = res.kind
                          /\ UNCHANGED x_records
             ELSE /\ overflow' = ov
                  /\ x_pc' = IF ov = << >> THEN "done" ELSE "err"
                  /\ UNCHANGED x_records
    /\ UNCHANGED << xz_error, call, cli, subVars, encVars, decVars, ext, xz, x_consumer, x_variant,
                    line_count, starting_sample, x_jsonl >>

NextX ==
    \/ \E assign_vec \in Vectors : XBenEncoder_write_json_value(assign_vec)
    \/ XBenEncoder_drop
    \/ XOpen
    \/ \E n \in 1..(Len(xz) - xpos) : decode_xben_to_ben_read(n)
    \/ \E n \in 1..(Len(xz) - xpos) : decode_xben_to_jsonl_read(n)
    \/ decode_xben_eof
    \/ \E m \in 0..(Len(xz) - xpos) : XBenDecoder_next(m)
    \/ BenDecoder_new
    \/ BenDecoder_next

SpecX == InitX /\ [][NextX]_vars

\* ------------------------------------------------------------- subsampling
\* The items of the iterator under the adapter: Ok((assignment, count)) with
\* count >= 1 as the decoders yield it, or Err.  The i-th item carries the
\* assignment << i >>.
UpOk(assignment, c) == [ok |-> TRUE, assignment |-> assignment, count |-> c]
UpErr == [ok |-> FALSE, assignment |-> << >>, count |-> 0]
UpItems(i) == {UpOk(<< i >>, c) : c \in 1..MaxCount} \cup {UpErr}

RECURSIVE UpSeqs(_)
UpSeqs(n) ==
    IF n = 0 THEN {<< >>}
    ELSE LET shorter == UpSeqs(n - 1)
         IN shorter \cup {Append(q, x) : q \in {r \in shorter : Len(r) = n - 1},
                                         x \in UpItems(n)}

\* indices.sort_unstable(); indices.dedup();
RECURSIVE SortDedup(_)
SortDedup(S) ==
    IF S = {} THEN << >>
    ELSE LET m == SetMin(S) IN << m >> \o SortDedup(S \ {m})

\* The Selection::Indices arm of count_selected_in: the peek loop.
RECURSIVE indices_count(_, _, _, _)
indices_count(iter, lo, hi, taken) ==
    IF iter = << >> THEN [selected |-> taken, iter |-> iter]
    ELSE LET next == Head(iter) IN
         IF next < lo THEN indices_count(Tail(iter), lo, hi, taken)
         ELSE IF next > hi THEN [selected |-> taken, iter |-> iter]
         ELSE indices_count(Tail(iter), lo, hi, Min(taken + 1, U16 - 1))

\* The Selection::Every arm with the first hit taken to be `start`.
every_count_nofirst(step, offset, lo, hi) ==
    LET start == Max(lo, offset) IN
    IF start > hi THEN 0
    ELSE AsU16(1 + (hi - start) \div step)

\* The Selection::Every arm of count_selected_in.
every_count(step, offset, lo, hi) ==
    LET start == Max(lo, offset) IN
    IF start > hi THEN 0
    ELSE LET r == (start - offset) % step
             first == start + ((step - r) % step)
         IN IF first > hi THEN 0
            ELSE AsU16(1 + (hi - first) \div step)

\* The Selection::Range arm of count_selected_in.
range_count(start, end, lo, hi) ==
    IF hi < start \/ lo > end THEN 0
    ELSE LET a == Max(lo, start)
             b == Min(hi, end)
         IN AsU16(b - a + 1)

\* SubsampleDecoder::count_selected_in: the count, and what is left of the
\* index iterator.
count_selected_in(selection, iter, lo, hi) ==
    CASE selection.kind = "Indices" -> indices_count(iter, lo, hi, 0)
      [] selection.kind = "Every" ->
            [selected |-> every_count(selection.step, selection.offset, lo, hi),
             iter |-> iter]
      [] OTHER ->
            [selected |-> range_count(selection.start, selection.end, lo, hi),
             iter |-> iter]

\* The loop without the early stop of Range at its head.
RECURSIVE sub_next_nostop(_, _, _, _, _)
sub_next_nostop(inner, selection, pos, iter, sample) ==
    IF pos = Len(inner)
    THEN [res |-> "None", item |-> UpErr, pos |-> pos, iter |-> iter,
          sample |-> sample]
    ELSE LET rec == inner[pos + 1] IN
         IF ~rec.ok
         THEN [res |-> "Some", item |-> UpErr, pos |-> pos + 1, iter |-> iter,
               sample |-> sample]
         ELSE LET lo == sample + 1
                  hi == sample + rec.count
                  c == count_selected_in(selection, iter, lo, hi)
              IN IF c.selected > 0
                 THEN [res |-> "Some", item |-> UpOk(rec.assignment, c.selected),
                       pos |-> pos + 1, iter |-> c.iter, sample |-> hi]
                 ELSE sub_next_nostop(inner, selection, pos + 1, c.iter, hi)

\* The loop of SubsampleDecoder::next from the state (pos, iter, sample).
RECURSIVE sub_next(_, _, _, _, _)
sub_next(inner, selection, pos, iter, sample) ==
    IF selection.kind = "Range" /\ sample >= selection.end
    THEN [res |-> "None", item |-> UpErr, pos |-> pos, iter |-> iter,
          sample |-> sample]
    ELSE IF pos = Len(inner)
    THEN [res |-> "None", item |-> UpErr, pos |-> pos, iter |-> iter,
          sample |-> sample]
    ELSE LET rec == inner[pos + 1] IN
         IF ~rec.ok
         THEN [res |-> "Some", item |-> UpErr, pos |-> pos + 1, iter |-> iter,
               sample |-> sample]
         ELSE LET lo == sample + 1
                  hi == sample + rec.count
                  c == count_selected_in(selection, iter, lo, hi)
              IN IF c.selected > 0
                 THEN [res |-> "Some", item |-> UpOk(rec.assignment, c.selected),
                       pos |-> pos + 1, iter |-> c.iter, sample |-> hi]
                 ELSE sub_next(inner, selection, pos + 1, c.iter, hi)

\* No encoder and no reader of either container is in use.
CodecIdle ==
    /\ variant = "Standard"
    /\ previous_sample = << >>
    /\ count = 0
    /\ enc_pc = "none"
    /\ written = << >>
    /\ n_written = 0
    /\ ben = << >>
    /\ DecInit
    /\ XInit
    /\ xz = << >>
    /\ x_consumer = "none"

\* An iterator of records is at hand; no adapter is built on it yet.
InitSub ==
    /\ CodecIdle
    /\ CliInit
    /\ CallInit
    /\ up \in UpSeqs(MaxRecs)
    /\ up_pos = 0
    /\ sel = Selection("none", << >>, 0, 0)
    /\ sel_iter = << >>
    /\ sub_sample = 0
    /\ sub_out = << >>
    /\ sub_pc = "unbuilt"

\* SubsampleDecoder::new.
SubsampleDecoder_new(selection) ==
    /\ sub_pc = "unbuilt"
    /\ sel' = selection
    /\ sel_iter' = selection.indices
    /\ sub_sample' = 0
    /\ sub_pc' = "iter"
    /\ UNCHANGED << call, cli, up, up_pos, sub_out, encVars, decVars, ext, xVars >>

\* SubsampleDecoder::by_indices.
by_indices(indices) ==
    /\ Len(indices) <= MaxIndices
    /\ SubsampleDecoder_new(Selection("Indices", SortDedup(Range(indices)), 0, 0))

\* SubsampleDecoder::every; the assert is the guard.
every(step, offset) ==
    /\ step >= 1 /\ offset >= 1
    /\ SubsampleDecoder_new(Selection("Every", << >>, step, offset))

\* SubsampleDecoder::by_range; the assert is the guard.
by_range(start, end) ==
    /\ start >= 1 /\ end >= start
    /\ SubsampleDecoder_new(Selection("Range", << >>, start, end))

\* One call of SubsampleDecoder::next.
SubsampleDecoder_next ==
    /\ sub_pc = "iter"
    /\ LET r == sub_next(up, sel, up_pos, sel_iter, sub_sample) IN
         /\ up_pos' = r.pos
         /\ sel_iter' = r.iter
         /\ sub_sample' = r.sample
         /\ sub_out' = IF r.res = "Some" THEN Append(sub_out, r.item) ELSE sub_out
         /\ sub_pc' = IF r.res = "Some" THEN "iter" ELSE "done"
    /\ UNCHANGED << call, cli, up, sel, encVars, decVars, ext, xVars >>

NextSub ==
    \/ \E indices \in SeqsUpTo(1..MaxIndex, MaxIndices) : by_indices(indices)
    \/ \E step \in 1..MaxStep, offset \in 1..MaxIndex : every(step, offset)
    \/ \E start \in 1..MaxIndex, end \in 1..MaxIndex : by_range(start, end)
    \/ SubsampleDecoder_next

SpecSub == InitSub /\ [][NextSub]_vars

\* A call of SubsampleDecoder::next after an earlier call returned None:
\* the adapter keeps no flag, the loop runs again from the state it is in.
SubsampleDecoder_next_after_none ==
    /\ sub_pc \in {"done", "done_again"}
    /\ LET r == sub_next(up, sel, up_pos, sel_iter, sub_sample) IN
         /\ up_pos' = r.pos
         /\ sel_iter' = r.iter
         /\ sub_sample' = r.sample
         /\ sub_out' = IF r.res = "Some" THEN Append(sub_out, r.item) ELSE sub_out
         /\ sub_pc' = IF r.res = "Some" THEN "iter" ELSE "done_again"
    /\ UNCHANGED << call, cli, up, sel, encVars, decVars, ext, xVars >>

NextSubAgain ==
    \/ \E indices \in SeqsUpTo(1..MaxIndex, MaxIndices) : by_indices(indices)
    \/ \E step \in 1..MaxStep, offset \in 1..MaxIndex : every(step, offset)
    \/ \E start \in 1..MaxIndex, end \in 1..MaxIndex : by_range(start, end)
    \/ SubsampleDecoder_next
    \/ SubsampleDecoder_next_after_none

SpecSubAgain == InitSub /\ [][NextSubAgain]_vars

\* ------------------------------------------------------ long runs of repeats
\* A MkvChain encoder, BenEncoder or XBenEncoder, that has been given the
\* vector v SatStart times since it was constructed and nothing else: the
\* banner is out, the line of v is held and count = SatStart.
InitSat ==
    /\ variant = "MkvChain"
    /\ x_consumer \in {"none", "XBenDecoder"}
    /\ \E v \in Vectors \ {<< >>} :
          previous_sample = IF x_consumer = "none"
                            THEN encode_ben_vec_from_rle(assign_to_rle(v))
                            ELSE encode_ben32_line(v)
    /\ count = SatStart
    /\ n_written = SatStart
    /\ written = << >>
    /\ enc_pc = "open"
    /\ ben = IF x_consumer = "none" THEN Banner(variant) ELSE << >>
    /\ xz = IF x_consumer = "none" THEN << >> ELSE Banner(variant)
    /\ DecInit
    /\ XInit
    /\ SubInit
    /\ CliInit
    /\ CallInit

NextSat ==
    \/ \E assign_vec \in Vectors : write_json_value(assign_vec)
    \/ BenEncoder_drop
    \/ \E assign_vec \in Vectors : XBenEncoder_write_json_value(assign_vec)
    \/ XBenEncoder_drop

SpecSat == InitSat /\ [][NextSat]_vars

\* ------------------------------------------------- the Python encoder class
\* PyBenEncoder::new: BenEncoder::new on the opened file.
InitFin == Init

\* PyBenEncoder::write: write_assignment of the vector on the encoder the
\* object still holds.
PyBenEncoder_write(assignment) ==
    /\ enc_pc = "open"
    /\ x_consumer = "none"
    /\ Len(written) < MaxSamples
    /\ Cardinality(Range(written) \cup {assignment}) <= MaxDistinct
    /\ write_rle(assign_to_rle(assignment))
    /\ written' = Append(written, assignment)
    /\ n_written' = n_written + 1
    /\ UNCHANGED << call, cli, subVars, variant, decVars, ext, xVars >>

\* BenEncoder::finish: flush, that is, write the held line followed by its
\* repeat count.
BenEncoder_finish == HeldGroup

\* PyBenEncoder::close: the encoder is taken out of the object, finish is
\* called on it, and it is dropped at the end of the `if let` block, which
\* runs Drop for BenEncoder.
PyBenEncoder_close ==
    /\ enc_pc = "open"
    /\ x_consumer = "none"
    /\ ben' = (ben \o BenEncoder_finish) \o HeldGroup
    /\ enc_pc' = "closed"
    /\ UNCHANGED << call, cli, subVars, variant, previous_sample, count, written, n_written,
                    decVars, ext, xVars >>

NextFin ==
    \/ \E assignment \in Vectors : PyBenEncoder_write(assignment)
    \/ PyBenEncoder_close
    \/ BenEncoder_drop
    \/ BenDecoder_new
    \/ BenDecoder_next

SpecFin == InitFin /\ [][NextFin]_vars

\* ------------------------------------------------------- damaged BEN sources
\* Headers that are no banner: the head of an xz stream, and a banner with
\* its last letter changed.
BadHeaders ==
    { XzMagic \o << 0, 4, 230, 214, 180, 70, 2, 0, 33, 1, 22 >>,
      [StandardBanner EXCEPT ![BannerLen] = 70] }

\* Display for DecoderInitError: which of the three messages is written.
DecoderInitError_fmt(e) ==
    IF e.kind = "Io" THEN "IO error"
    ELSE IF Len(e.header) >= 6 /\ SubSeq(e.header, 1, 6) = XzMagic THEN "Compressed header detected"
    ELSE "Invalid file format. Found header"

\* A BEN stream is written by BenEncoder; either BenDecoder will read it.
InitDmg ==
    /\ variant \in Variants
    /\ previous_sample = << >>
    /\ count = 0
    /\ enc_pc = "open"
    /\ written = << >>
    /\ n_written = 0
    /\ ben = Banner(variant)
    /\ \E impl \in {"ben", "src"} : DecInitFor(impl)
    /\ XInit
    /\ SubInit
    /\ CliInit
    /\ CallInit
    /\ xz = << >>
    /\ x_consumer = "none"

\* The reader handed to the decoder ends k bytes before the stream does.
Truncate(k) ==
    /\ enc_pc = "dropped"
    /\ x_consumer = "none"
    /\ dec_pc = "unopened"
    /\ Len(written) <= MaxDmgSamples
    /\ k >= 1 /\ k <= Len(ben)
    /\ ben' = SubSeq(ben, 1, Len(ben) - k)
    /\ enc_pc' = "damaged"
    /\ UNCHANGED << call, cli, subVars, variant, previous_sample, count, written, n_written,
                    decVars, ext, xVars >>

\* The reader handed to the decoder starts with the 17 bytes h.
Reheader(h) ==
    /\ enc_pc = "dropped"
    /\ x_consumer = "none"
    /\ dec_pc = "unopened"
    /\ Len(written) <= MaxDmgSamples
    /\ ben' = h \o SubSeq(ben, BannerLen + 1, Len(ben))
    /\ enc_pc' = "damaged"
    /\ UNCHANGED << call, cli, subVars, variant, previous_sample, count, written, n_written,
                    decVars, ext, xVars >>

\* BenDecoder::new of src/src/decode: it panics on a short read and on
\* every header other than the Standard banner.
OldBenDecoder_new ==
    /\ BenStreamReady
    /\ dec_pc = "unopened"
    /\ dec_impl = "src"
    /\ ext = NoExt
    /\ IF Has(ben, 0, BannerLen) /\ Bytes(ben, 0, BannerLen) = StandardBanner
       THEN dec_pc' = "open" /\ rpos' = BannerLen
       ELSE dec_pc' = "panic" /\ rpos' = Min(Len(ben), BannerLen)
    /\ UNCHANGED << call, cli, subVars, dec_variant, dec_impl, init_error, sample_count,
                    records, jsonl, encVars, ext, xVars >>

\* One turn of the loop of write_all_jsonl of src/src/decode: next, which
\* numbers the sample once its first byte is read, then one JSON line.
OldBenDecoder_next ==
    /\ dec_pc = "open"
    /\ dec_impl = "src"
    /\ LET r == ben_next(ben, rpos, "Standard") IN
         /\ dec_pc' = CASE r.kind = "ok" -> "open"
                         [] r.kind = "none" -> "done"
                         [] r.kind = "err" -> "err"
                         [] OTHER -> "panic"
         /\ rpos' = r.pos
         /\ sample_count' = IF r.kind = "none" THEN sample_count
                            ELSE sample_count + 1
         /\ records' = IF r.kind = "ok"
                       THEN Append(records, << r.assignment, 1 >>)
                       ELSE records
         /\ jsonl' = IF r.kind = "ok"
                     THEN Append(jsonl, [assignment |-> r.assignment,
                                         sample |-> sample_count + 1])
                     ELSE jsonl
    /\ UNCHANGED << call, cli, subVars, dec_variant, dec_impl, init_error, encVars, ext,
                    xVars >>

NextDmg ==
    \/ \E assign_vec \in Vectors : write_json_value(assign_vec)
    \/ BenEncoder_drop
    \/ \E k \in 1..MaxCut : Truncate(k)
    \/ \E h \in BadHeaders : Reheader(h)
    \/ BenDecoder_new
    \/ BenDecoder_next
    \/ OldBenDecoder_new
    \/ OldBenDecoder_next

SpecDmg == InitDmg /\ [][NextDmg]_vars

\* ------------------------------------------------------ damaged XBEN sources
\* The decompressed stream ends k bytes before the ben32 stream does.
XTruncate(k) ==
    /\ enc_pc = "dropped"
    /\ x_consumer # "none"
    /\ x_pc = "unopened"
    /\ k >= 1 /\ k <= Len(xz) - BannerLen
    /\ xz' = SubSeq(xz, 1, Len(xz) - k)
    /\ enc_pc' = "damaged"
    /\ UNCHANGED << call, cli, subVars, variant, previous_sample, count, written, n_written,
                    ben, decVars, ext, x_consumer, x_pc, x_variant, xpos,
                    overflow, line_count, starting_sample, x_records, x_jsonl,
                    xz_error >>

\* The turn of the loop of decode_xben_to_ben or decode_xben_to_jsonl in
\* which decoder.read returns Err before the end of the stream: the pattern
\* of `while let Ok(count) = ..` does not match, the loop is left and the
\* function returns Ok(()).
decode_xben_read_error ==
    /\ x_consumer \in {"to_ben", "to_jsonl"}
    /\ x_pc = "reading"
    /\ xpos < Len(xz)
    /\ xz_error' = TRUE
    /\ x_pc' = "done"
    /\ UNCHANGED << call, cli, subVars, encVars, decVars, ext, xz, x_consumer, x_variant, xpos,
                    overflow, line_count, starting_sample, x_records, x_jsonl >>

\* The call of XBenDecoder::next in which, with no complete frame in the
\* overflow and after m more bytes that do not complete one, self.xz.read
\* returns Err(e): the call returns Some(Err(e)).
XBenDecoder_next_error(m) ==
    /\ x_consumer = "XBenDecoder"
    /\ x_pc = "reading"
    /\ xpos + m < Len(xz)
    /\ LET ov == overflow \o Bytes(xz, xpos, m) IN
         /\ ~pop_frame_from_overflow(ov, x_variant).found
         /\ overflow' = ov
    /\ xpos' = xpos + m
    /\ xz_error' = TRUE
    /\ x_pc' = "err"
    /\ UNCHANGED << call, cli, subVars, encVars, decVars, ext, xz, x_consumer, x_variant,
                    line_count, starting_sample, x_records, x_jsonl >>

NextXDmg ==
    \/ \E assign_vec \in Vectors : XBenEncoder_write_json_value(assign_vec)
    \/ XBenEncoder_drop
    \/ \E k \in 1..MaxCut : XTruncate(k)
    \/ XOpen
    \/ \E n \in 1..(Len(xz) - xpos) : decode_xben_to_ben_read(n)
    \/ \E n \in 1..(Len(xz) - xpos) : decode_xben_to_jsonl_read(n)
    \/ decode_xben_eof
    \/ decode_xben_read_error
    \/ \E m \in 0..(Len(xz) - xpos) : XBenDecoder_next(m)
    \/ \E m \in 0..(Len(xz) - xpos) : XBenDecoder_next_error(m)

SpecXDmg == InitX /\ [][NextXDmg]_vars

\* ------------------------------------------------------------- BEN to XBEN
\* The ben32 words of a run list.
RECURSIVE RunWords(_)
RunWords(rle) ==
    IF rle = << >> THEN << >>
    ELSE U16BeBytes(rle[1][1]) \o U16BeBytes(rle[1][2]) \o RunWords(Tail(rle))

\* translate::ben_to_ben32_lines: each BEN line is decoded to runs, each run
\* is written as a word, then the zero word, then the MkvChain repeat suffix
\* as it stands.  status is "ok", or "err" when the stream ends inside a
\* line.
RECURSIVE ben_to_ben32_lines(_, _, _, _)
ben_to_ben32_lines(stream, pos, v, out) ==
    LET n_bytes == U32FromBe(Bytes(stream, pos + 2, 4))
        suffix == IF v = "MkvChain" THEN 2 ELSE 0
        rle == decode_ben_line(Bytes(stream, pos + 6, n_bytes),
                               stream[pos + 1], stream[pos + 2])
    IN IF ~Has(stream, pos, 1) THEN [status |-> "ok", bytes |-> out]
       ELSE IF ~Has(stream, pos, 6) \/ ~Has(stream, pos + 6, n_bytes + suffix)
       THEN [status |-> "err", bytes |-> out]
       ELSE ben_to_ben32_lines(stream, pos + 6 + n_bytes + suffix, v,
                out \o RunWords(rle) \o << 0, 0, 0, 0 >>
                    \o Bytes(stream, pos + 6 + n_bytes, suffix))

\* XBenEncoder::write_ben_file on the reader at offset pos: read_exact of 17
\* bytes; they are no banner or not the other banner, so they are always
\* chained back in front of the reader, which is then translated.
write_ben_file(stream, pos, v) ==
    IF ~Has(stream, pos, BannerLen) THEN [status |-> "err", bytes |-> << >>]
    ELSE ben_to_ben32_lines(stream, pos, v, << >>)

\* ben_encode_xben on the finished BEN stream: the banner is read and picks
\* the variant of the XBenEncoder, write_ben_file gets the rest of the
\* reader, and the encoder is dropped with count = 0.  decode_xben_to_ben
\* will read the result.
ben_encode_xben ==
    /\ enc_pc = "dropped"
    /\ x_consumer = "none"
    /\ dec_pc = "unopened"
    /\ ext = NoExt
    /\ Len(written) <= MaxXSamples
    /\ LET v == BannerVariant(ben)
           r == write_ben_file(ben, BannerLen, v)
       IN IF v \notin Variants
          THEN enc_pc' = "convert_err" /\ xz' = << >>
          ELSE /\ xz' = Banner(v) \o r.bytes
               /\ enc_pc' = IF r.status = "ok" THEN "converted" ELSE "convert_err"
    /\ x_consumer' = "to_ben"
    /\ UNCHANGED << call, cli, subVars, variant, previous_sample, count, written, n_written,
                    ben, decVars, ext, x_pc, x_variant, xpos, overflow,
                    line_count, starting_sample, x_records, x_jsonl, xz_error >>

NextB2X ==
    \/ \E assign_vec \in Vectors : write_json_value(assign_vec)
    \/ BenEncoder_drop
    \/ ben_encode_xben
    \/ XOpen
    \/ \E n \in 1..(Len(xz) - xpos) : decode_xben_to_ben_read(n)
    \/ decode_xben_eof

SpecB2X == Init /\ [][NextB2X]_vars

\* ------------------------------------------------- XBEN to JSONL, both copies
\* The two functions that turn an XBEN stream into JSON lines:
\* decode_xben_to_jsonl of src/ben/src/decode and jsonl_decode_xben of
\* src/src/decode.

InitNum ==
    /\ variant \in Variants
    /\ previous_sample = << >>
    /\ count = 0
    /\ enc_pc = "open"
    /\ written = << >>
    /\ n_written = 0
    /\ ben = << >>
    /\ DecInit
    /\ XInit
    /\ SubInit
    /\ CliInit
    /\ CallInit
    /\ xz = Banner(variant)
    /\ x_consumer \in {"to_jsonl", "jsonl_decode_xben"}

\* jsonl_decode_ben32 of src/src/decode on the frames handed to it behind a
\* fresh banner: Standard frames, numbered from 1 in every call.
old_jsonl_decode_ben32(frames) ==
    jsonl_decode_ben32(frames, 0, 0, "Standard", << >>)

\* The head of jsonl_decode_xben: one `read` into the 17-byte buffer, which
\* hands out n bytes and leaves the rest of the buffer zero, then the
\* comparison with the Standard banner.
jsonl_decode_xben_open(n) ==
    /\ enc_pc = "dropped"
    /\ x_consumer = "jsonl_decode_xben"
    /\ x_pc = "unopened"
    /\ n >= 1 /\ n <= Min(BannerLen, Len(xz))
    /\ xpos' = n
    /\ LET first_buffer == Bytes(xz, 0, n) \o [i \in 1..(BannerLen - n) |-> 0] IN
         IF first_buffer = StandardBanner
         THEN x_pc' = "reading" /\ x_variant' = "Standard"
         ELSE x_pc' = "err" /\ UNCHANGED x_variant
    /\ UNCHANGED << call, cli, subVars, encVars, decVars, ext, xz, x_consumer, overflow,
                    line_count, starting_sample, x_records, x_jsonl, xz_error >>

\* One turn of the read loop of jsonl_decode_xben in which the XzDecoder
\* hands out n >= 1 bytes.
jsonl_decode_xben_read(n) ==
    /\ x_consumer = "jsonl_decode_xben"
    /\ x_pc = "reading"
    /\ LET ov == overflow \o Bytes(xz, xpos, n)
           sc == ScanStandard(ov)
           last_valid_assignment == sc.last_valid_assignment
           r == old_jsonl_decode_ben32(SubSeq(ov, 1, last_valid_assignment))
       IN /\ xpos' = xpos + n
          /\ IF last_valid_assignment = 0
             THEN /\ overflow' = ov
                  /\ UNCHANGED << x_jsonl, line_count, x_pc >>
             ELSE /\ line_count' = line_count + sc.lines
                  /\ x_jsonl' = x_jsonl \o r.lines
                  /\ IF r.status = "ok"
                     THEN /\ overflow' = SubSeq(ov, last_valid_assignment + 1, Len(ov))
                          /\ UNCHANGED x_pc
                     ELSE /\ x_pc' = r.status
                          /\ overflow' = ov
    /\ UNCHANGED << call, cli, subVars, encVars, decVars, ext, xz, x_consumer, x_variant,
                    starting_sample, x_records, xz_error >>

\* The turn in which the XzDecoder reports the end of the stream.
jsonl_decode_xben_eof ==
    /\ x_consumer = "jsonl_decode_xben"
    /\ x_pc = "reading"
    /\ xpos = Len(xz)
    /\ x_pc' = "done"
    /\ UNCHANGED << call, cli, subVars, encVars, decVars, ext, xz, x_consumer, x_variant, xpos,
                    overflow, line_count, starting_sample, x_records, x_jsonl,
                    xz_error >>

NextNum ==
    \/ \E assign_vec \in Vectors : XBenEncoder_write_json_value(assign_vec)
    \/ XBenEncoder_drop
    \/ XOpen
    \/ \E n \in 1..(Len(xz) - xpos) : decode_xben_to_jsonl_read(n)
    \/ decode_xben_eof
    \/ \E n \in 1..BannerLen : jsonl_decode_xben_open(n)
    \/ \E n \in 1..(Len(xz) - xpos) : jsonl_decode_xben_read(n)
    \/ jsonl_decode_xben_eof

SpecNum == InitNum /\ [][NextNum]_vars

\* ------------------------------------------------ both encoders, from new
\* A BenEncoder or an XBenEncoder as its constructor leaves it, the banner
\* written and no line held.
InitGrp ==
    /\ variant \in Variants
    /\ x_consumer \in {"none", "XBenDecoder"}
    /\ previous_sample = << >>
    /\ count = 0
    /\ n_written = 0
    /\ written = << >>
    /\ enc_pc = "open"
    /\ ben = IF x_consumer = "none" THEN Banner(variant) ELSE << >>
    /\ xz = IF x_consumer = "none" THEN << >> ELSE Banner(variant)
    /\ DecInit
    /\ XInit
    /\ SubInit
    /\ CliInit
    /\ CallInit

SpecGrp == InitGrp /\ [][NextSat]_vars

\* --------------------------------------------- the documented example inputs
\* The two assignment vectors of the example in the documentation of
\* jsonl_encode_ben, and vectors with the value 0, a single run and a wide
\* value beside them.
\* jsonl_encode_ben on lines drawn from these vectors, then
\* decode_ben_to_jsonl on the finished stream.
NextEx ==
    \/ \E assign_vec \in { << 1, 1, 1, 2, 2, 2 >>, << 1, 1, 2, 2, 1, 2 >>,
                           << 0, 0 >>, << 1 >>, << 300, 1, 1 >> } :
          write_json_value(assign_vec)
    \/ BenEncoder_drop
    \/ BenDecoder_new
    \/ BenDecoder_next

SpecEx == Init /\ [][NextEx]_vars

\* ------------------------------------------------------ the ben command line
\* The process ends: main returned (status 0) or a panic ended it (101).
CliExit(status, failure) ==
    cli' = [cli EXCEPT !.pc = "exited", !.status = status, !.failure = failure]

\* Nothing has been built or called: the state before main runs, and before
\* a line-level function is called directly.
InitIdle ==
    /\ CodecIdle
    /\ SubInit
    /\ CliInit
    /\ CallInit

\* Args::parse() with the arguments of one invocation.
Args_parse(mode, input_ext, output_file, sample_number, print) ==
    /\ cli.pc = "idle"
    /\ cli' = [cli EXCEPT !.pc = "parsed", !.mode = mode,
                          !.input_ext = input_ext, !.output_file = output_file,
                          !.sample_number = sample_number, !.print = print]
    /\ UNCHANGED << call, subVars, encVars, decVars, ext, xVars >>

\* `File::open(&args.input_file).unwrap()`, the first statement of every
\* mode but XzDecompress.
main_open(can_open) ==
    /\ cli.pc = "parsed"
    /\ cli.mode # "XzDecompress"
    /\ IF can_open THEN cli' = [cli EXCEPT !.pc = "opened"]
       ELSE CliExit(101, "open_panic")
    /\ UNCHANGED << call, subVars, encVars, decVars, ext, xVars >>

\* The `let mut out_file` of the modes Encode, XEncode, Decode and XDecode:
\* stdout, or the file named by encode_setup / decode_setup, which ask
\* before they overwrite.  Every failure prints and returns from main;
\* decode_setup returns Err(InvalidInput) for an input that ends neither in
\* .ben nor in .xben, when no output file is named.
main_out_file(out_exists, answer_y, create_ok) ==
    /\ cli.pc = "opened"
    /\ cli.mode \in {"Encode", "XEncode", "Decode", "XDecode"}
    /\ IF cli.print THEN cli' = [cli EXCEPT !.pc = "ready"]
       ELSE IF /\ cli.mode \in {"Decode", "XDecode"}
               /\ ~cli.output_file
               /\ cli.input_ext \notin {".ben", ".xben"}
       THEN CliExit(0, "unsupported_type")
       ELSE IF out_exists /\ ~answer_y THEN CliExit(0, "declined")
       ELSE IF ~create_ok THEN CliExit(0, "create_err")
       ELSE cli' = [cli EXCEPT !.pc = "ready"]
    /\ UNCHANGED << call, subVars, encVars, decVars, ext, xVars >>

\* Mode::Read: `if args.sample_number.is_none() { eprintln!(..); return; }`
main_sample_number ==
    /\ cli.pc = "opened"
    /\ cli.mode = "Read"
    /\ IF cli.sample_number THEN cli' = [cli EXCEPT !.pc = "ready"]
       ELSE CliExit(0, "missing_sample_number")
    /\ UNCHANGED << call, subVars, encVars, decVars, ext, xVars >>

\* Mode::XzCompress up to the call of xz_compress: the question before an
\* overwrite, then `File::create(out_file_name).unwrap()`.
main_xz_compress_setup(out_exists, answer_y, create_ok) ==
    /\ cli.pc = "opened"
    /\ cli.mode = "XzCompress"
    /\ IF out_exists /\ ~answer_y THEN CliExit(0, "declined")
       ELSE IF ~create_ok THEN CliExit(101, "create_panic")
       ELSE cli' = [cli EXCEPT !.pc = "ready"]
    /\ UNCHANGED << call, subVars, encVars, decVars, ext, xVars >>

\* Mode::XzDecompress up to the call of xz_decompress: the check of the
\* file name, the question before an overwrite, then the two unwraps.
main_xz_decompress_setup(out_exists, answer_y, can_open, create_ok) ==
    /\ cli.pc = "parsed"
    /\ cli.mode = "XzDecompress"
    /\ IF cli.input_ext # ".xz" THEN CliExit(0, "unsupported_type")
       ELSE IF out_exists /\ ~answer_y THEN CliExit(0, "declined")
       ELSE IF ~can_open THEN CliExit(101, "open_panic")
       ELSE IF ~create_ok THEN CliExit(101, "create_panic")
       ELSE cli' = [cli EXCEPT !.pc = "ready"]
    /\ UNCHANGED << call, subVars, encVars, decVars, ext, xVars >>

\* The call of the mode's operation (jsonl_encode_ben, jsonl_encode_xben or
\* encode_ben_to_xben, decode_xben_to_ben or jsonl_decode_ben,
\* jsonl_decode_xben, extract_assignment_ben, xz_compress, xz_decompress)
\* and the `if let Err(err) = .. { eprintln!(..) }` around it, after which
\* main returns.
main_operation(ok) ==
    /\ cli.pc = "ready"
    /\ IF ok THEN CliExit(0, "none") ELSE CliExit(0, "operation_err")
    /\ UNCHANGED << call, subVars, encVars, decVars, ext, xVars >>

NextCli ==
    \/ \E mode \in {"Encode", "XEncode", "Decode", "XDecode", "Read",
                     "XzCompress", "XzDecompress"},
          input_ext \in {".jsonl", ".ben", ".xben", ".xz"},
          output_file \in BOOLEAN, sample_number \in BOOLEAN, print \in BOOLEAN :
          Args_parse(mode, input_ext, output_file, sample_number, print)
    \/ \E can_open \in BOOLEAN : main_open(can_open)
    \/ \E out_exists \in BOOLEAN, answer_y \in BOOLEAN, create_ok \in BOOLEAN :
          main_out_file(out_exists, answer_y, create_ok)
    \/ main_sample_number
    \/ \E out_exists \in BOOLEAN, answer_y \in BOOLEAN, create_ok \in BOOLEAN :
          main_xz_compress_setup(out_exists, answer_y, create_ok)
    \/ \E out_exists \in BOOLEAN, answer_y \in BOOLEAN, can_open \in BOOLEAN,
          create_ok \in BOOLEAN :
          main_xz_decompress_setup(out_exists, answer_y, can_open, create_ok)
    \/ \E ok \in BOOLEAN : main_operation(ok)

SpecCli == InitIdle /\ [][NextCli]_vars

\* ------------------------------------------- line-level functions, directly
\* decode_ben_line(reader, max_val_bits, max_len_bits, n_bytes) on a reader
\* that holds the n_bytes bytes of assign_bits.
decode_ben_line_call(assign_bits, max_val_bits, max_len_bits, build) ==
    /\ call.f = "none"
    /\ LET r == decode_ben_line_build(assign_bits, max_val_bits, max_len_bits, build)
       IN call' = [f |-> "decode_ben_line", assign_bits |-> assign_bits,
                   max_val_bits |-> max_val_bits, max_len_bits |-> max_len_bits,
                   build |-> build, kind |-> r.kind, output_rle |-> r.output_rle]
    /\ Len(assign_bits) <= MaxPayload
    /\ UNCHANGED << cli, subVars, encVars, decVars, ext, xVars >>

\* encode_ben32_line on the vector that is SatStart times the value
\* assign followed by tail: the loop is taken up where it stands after the
\* first SatStart elements (prev_assign = assign, count = SatStart, nothing
\* in ret).
encode_ben32_line_long(assign, tail, build) ==
    /\ call.f = "none"
    /\ LET rest == << assign >> \o tail
           panics == build = "debug" /\ Ben32Overflows(rest, 2, assign, SatStart)
       IN call' = [f |-> "encode_ben32_line", assign |-> assign,
                   repeated |-> SatStart, tail |-> tail, build |-> build,
                   kind |-> IF panics THEN "panic" ELSE "ok",
                   ret |-> IF panics THEN << >>
                           ELSE Ben32Runs(rest, 2, assign, SatStart, << >>)
                                   \o << 0, 0, 0, 0 >>]
    /\ Len(tail) <= MaxTail
    /\ UNCHANGED << cli, subVars, encVars, decVars, ext, xVars >>

\* The values, lengths and repeat counts of the well-formed MkvChain frames
\* that are scanned: the value 0, which puts two zero bytes beside the
\* length, and a byte 01 in either half of a length or a count.
Frames == [runs : SeqsUpTo({0} \X {1, 256}, MaxRuns), count : {1, 256}]

\* A frame as XBenEncoder writes it: the words of encode_ben32_line
\* (value << 16 | length, big-endian), the zero word, the repeat count.
RECURSIVE WordBytes(_)
WordBytes(runs) ==
    IF runs = << >> THEN << >>
    ELSE U16BeBytes(runs[1][1]) \o U16BeBytes(runs[1][2]) \o WordBytes(Tail(runs))

RECURSIVE FramesBytes(_)
FramesBytes(frames) ==
    IF frames = << >> THEN << >>
    ELSE WordBytes(frames[1].runs) \o << 0, 0, 0, 0 >>
            \o U16BeBytes(frames[1].count) \o FramesBytes(Tail(frames))

\* The MkvChain scans on an overflow buffer that holds the frames from
\* their beginning: the loop of decode_xben_to_ben and decode_xben_to_jsonl
\* over the whole buffer, and XBenDecoder::pop_frame_from_overflow.
mkv_scan_call(frames) ==
    /\ call.f = "none"
    /\ frames # << >>
    /\ Len(frames) <= MaxFrames
    /\ LET buffered == FramesBytes(frames) IN
       call' = [f |-> "mkv_scan", frames |-> frames, overflow |-> buffered,
                hits |-> MkvChainHits(buffered, Len(buffered) - 2),
                scan |-> ScanMkvChain(buffered, Len(buffered) - 2),
                popped |-> pop_frame_from_overflow(buffered, "MkvChain")]
    /\ UNCHANGED << cli, subVars, encVars, decVars, ext, xVars >>

NextFn ==
    \/ \E frames \in SeqsUpTo(Frames, MaxFrames) : mkv_scan_call(frames)
    \/ \E assign_bits \in SeqsUpTo({0, 112, 255}, MaxPayload), max_val_bits \in {0, 1, 2, 9, 16, 17, 32, 40, 128},
          max_len_bits \in {0, 1, 2, 9, 16, 17, 32, 40, 128}, build \in Builds :
          decode_ben_line_call(assign_bits, max_val_bits, max_len_bits, build)
    \/ \E assign \in Values, tail \in SeqsUpTo(Values, MaxTail), build \in Builds :
          encode_ben32_line_long(assign, tail, build)

SpecFn == InitIdle /\ [][NextFn]_vars

\* ------------------------------------------------------------------ claims
\* The records and JSON lines a faithful decode of the samples V gives.
ExpectedJsonl(V) == [i \in 1..Len(V) |-> [assignment |-> V[i], sample |-> i]]
Assignments(lines) == [i \in 1..Len(lines) |-> lines[i].assignment]
Counts(recs) == [i \in 1..Len(recs) |-> recs[i][2]]

\* C1: a Standard BEN stream written from the valid vectors V decodes to
\* exactly V: one record per sample, in order, each with count 1, and the
\* JSON lines are numbered 1..|V|; the decoder ends normally.
C1_StandardRoundTrip ==
    (variant = "Standard" /\ enc_pc = "dropped") =>
        /\ dec_pc \in {"unopened", "open", "done"}
        /\ Len(records) <= Len(written)
        /\ records = [i \in 1..Len(records) |-> << written[i], 1 >>]
        /\ jsonl = ExpectedJsonl(SubSeq(written, 1, Len(records)))
        /\ (dec_pc = "done" => Len(records) = Len(written))

C1_Witness ==
    /\ variant = "Standard" /\ dec_pc = "done"
    /\ Len(written) >= 3 /\ Cardinality(Range(written)) = 2
    /\ Len(jsonl) = Len(written)

\* C2: in MkvChain, the finalized stream of [v, v, v, w, v] (v # w) holds
\* three groups with repeats 3, 1, 1, the stream of [v, v] one group with
\* repeat 2, and decoding ends normally with the records, expanded count
\* times, being the original samples in their order.
C2_MkvChainGroups ==
    (variant = "MkvChain" /\ enc_pc = "dropped") =>
        /\ dec_pc \in {"unopened", "open", "done"}
        /\ Len(jsonl) <= Len(written)
        /\ jsonl = ExpectedJsonl(SubSeq(written, 1, Len(jsonl)))
        /\ (dec_pc = "done" => Len(jsonl) = Len(written))
        /\ (/\ dec_pc = "done"
            /\ Len(written) = 5
            /\ written[2] = written[1] /\ written[3] = written[1]
            /\ written[4] # written[1] /\ written[5] = written[1])
           => records = << << written[1], 3 >>, << written[4], 1 >>,
                           << written[1], 1 >> >>
        /\ (dec_pc = "done" /\ Len(written) = 2 /\ written[2] = written[1])
           => records = << << written[1], 2 >> >>

C2_Witness ==
    /\ variant = "MkvChain" /\ dec_pc = "done"
    /\ Len(written) = 5
    /\ written[2] = written[1] /\ written[3] = written[1]
    /\ written[4] # written[1] /\ written[5] = written[1]
    /\ Counts(records) = << 3, 1, 1 >>

\* The maximal runs of equal consecutive samples of V, as (vector, length).
RECURSIVE RunGroups(_)
RunGroups(V) ==
    IF V = << >> THEN << >>
    ELSE LET g == RunGroups(SubSeq(V, 1, Len(V) - 1))
             n == Len(g)
         IN IF n > 0 /\ g[n][1] = V[Len(V)]
            THEN [g EXCEPT ![n] = << g[n][1], g[n][2] + 1 >>]
            ELSE Append(g, << V[Len(V)], 1 >>)

\* The records a stream of the samples V carries in variant v.
ExpectedRecords(V, v) ==
    IF v = "Standard" THEN [i \in 1..Len(V) |-> << V[i], 1 >>] ELSE RunGroups(V)

\* The BEN lines of the records recs, with the repeat suffix in MkvChain.
RECURSIVE BenLines(_, _)
BenLines(recs, v) ==
    IF recs = << >> THEN << >>
    ELSE encode_ben_vec_from_rle(assign_to_rle(recs[1][1]))
            \o (IF v = "MkvChain" THEN U16BeBytes(recs[1][2]) ELSE << >>)
            \o BenLines(Tail(recs), v)

\* C3: JSONL -> XBEN (jsonl_encode_xben) -> BEN (decode_xben_to_ben) ->
\* JSONL gives the vectors of V in their order, numbered 1..|V|: the
\* conversion succeeds and the BEN stream decodes to V.
C3_DoubleRoundTrip ==
    (x_consumer = "to_ben" /\ enc_pc = "dropped") =>
        /\ x_pc \in {"unopened", "reading", "done"}
        /\ dec_pc \in {"unopened", "open", "done"}
        /\ (dec_pc = "done" => jsonl = ExpectedJsonl(written))

\* C4: whatever way the decompressed ben32 stream is cut into read chunks,
\* no XBEN reader crashes or fails, and when it is done it has emitted every
\* frame exactly once, in stream order.
C4_ChunkIndependent ==
    (x_consumer # "none" /\ enc_pc = "dropped") =>
        /\ x_pc \in {"unopened", "reading", "done"}
        /\ (x_pc = "done" /\ x_consumer = "XBenDecoder")
              => x_records = ExpectedRecords(written, variant)
        /\ (x_pc = "done" /\ x_consumer = "to_jsonl")
              => x_jsonl = ExpectedJsonl(written)
        /\ (x_pc = "done" /\ x_consumer = "to_ben")
              => ben = Banner(variant)
                         \o BenLines(ExpectedRecords(written, variant), variant)

\* C5: on a Standard stream of the valid vectors V, the random-access read
\* of sample n, 1 <= n <= |V|, returns V[n].
C5_ExtractReturnsSample ==
    (variant = "Standard" /\ ext.source = "stream"
        /\ ext.n >= 1 /\ ext.n <= Len(written)) =>
        ext.res = ExtResult("Ok", written[ext.n], 0)

C5_Witness ==
    /\ variant = "Standard" /\ ext.source = "stream"
    /\ Len(written) = 3 /\ ext.n = 2
    /\ written[2] # written[1]
    /\ ext.res.kind = "Ok" /\ ext.res.assignment = written[2]

\* C6: on a Standard stream of |V| samples, the random-access read of a
\* sample n > |V| returns SampleNotFound reporting |V| as the last sample.
C6_SampleNotFoundLast ==
    (variant = "Standard" /\ ext.source = "stream" /\ ext.n > Len(written)) =>
        ext.res = ExtResult("SampleNotFound", << >>, Len(written))

\* C7: the random-access read of sample 0 returns InvalidSampleNumber and
\* no assignment, whatever the source holds.
C7_ZeroIsInvalid ==
    (ext.source # "none" /\ ext.n = 0) =>
        ext.res = ExtResult("InvalidSampleNumber", << >>, 0)

C7_Witness ==
    /\ ext.source \in {"empty", "xz"} /\ ext.n = 0
    /\ ext.res.kind = "InvalidSampleNumber"

\* C8: on a MkvChain stream the random-access read indexes expanded
\* samples: sample n is the n-th vector of full iteration.
C8_MkvChainExpandedIndex ==
    (variant = "MkvChain" /\ ext.source = "stream"
        /\ ext.n >= 1 /\ ext.n <= Len(written)) =>
        ext.res = ExtResult("Ok", written[ext.n], 0)

\* The expanded indices a Selection names.
InSelection(selection, i) ==
    CASE selection.kind = "Indices" -> i \in Range(selection.indices)
      [] selection.kind = "Every" ->
            i >= selection.offset /\ (i - selection.offset) % selection.step = 0
      [] selection.kind = "Range" -> selection.start <= i /\ i <= selection.end
      [] OTHER -> FALSE

IsOk(item) == item.ok

RECURSIVE SumCounts(_, _)
SumCounts(items, n) ==
    IF n = 0 THEN 0 ELSE SumCounts(items, n - 1) + items[n].count

TotalCount(items) == SumCounts(items, Len(items))

\* What subsampling the records recs, the first of them starting at expanded
\* index lo, has to give: each record that meets the selection, with the
\* number of selected indices it covers.
RECURSIVE ExpectedSubsample(_, _, _)
ExpectedSubsample(recs, selection, lo) ==
    IF recs = << >> THEN << >>
    ELSE LET hi == lo + recs[1].count - 1
             n == Cardinality({i \in lo..hi : InSelection(selection, i)})
         IN (IF n > 0 THEN << UpOk(recs[1].assignment, n) >> ELSE << >>)
               \o ExpectedSubsample(Tail(recs), selection, hi + 1)

FiveSingles == [i \in 1..5 |-> UpOk(<< i >>, 1)]

\* C9: the SubsampleDecoder emits, in upstream order, exactly the records
\* whose expanded index range meets the selection, each with its assignment
\* and the number of selected indices it covers; the counts sum to the number
\* of selected indices in 1..N and none is 0.  On five single samples
\* Every{2,1} and Indices{1,3,5} give the 1st, 3rd and 5th, Range{2,4} the
\* 2nd, 3rd and 4th.
C9_SubsampleExact ==
    LET recs == SelectSeq(up, IsOk)
        out == SelectSeq(sub_out, IsOk)
        want == ExpectedSubsample(recs, sel, 1)
        N == TotalCount(recs)
    IN sub_pc \in {"iter", "done"} =>
        /\ Len(out) <= Len(want)
        /\ out = SubSeq(want, 1, Len(out))
        /\ \A i \in 1..Len(out) : out[i].count >= 1
        /\ sub_pc = "done" =>
              /\ out = want
              /\ TotalCount(out) = Cardinality({i \in 1..N : InSelection(sel, i)})
        /\ (sub_pc = "done" /\ up = FiveSingles) =>
              /\ (sel.kind = "Every" /\ sel.step = 2 /\ sel.offset = 1) =>
                    sub_out = << up[1], up[3], up[5] >>
              /\ (sel.kind = "Range" /\ sel.start = 2 /\ sel.end = 4) =>
                    sub_out = << up[2], up[3], up[4] >>
              /\ (sel.kind = "Indices" /\ sel.indices = << 1, 3, 5 >>) =>
                    sub_out = << up[1], up[3], up[5] >>

C9_Witness ==
    /\ sub_pc = "done"
    /\ sel.kind = "Every" /\ sel.step = 2 /\ sel.offset = 2
    /\ \A i \in 1..Len(up) : up[i].ok
    /\ Len(up) = MaxRecs
    /\ Len(sub_out) = Len(up) - 1
    /\ \E i \in 1..Len(sub_out) : sub_out[i].count < up[i + 1].count

\* The repeat counts of the groups of a finished MkvChain stream: of the BEN
\* lines after the banner, or of the ben32 frames after the banner.
RECURSIVE BenRepeats(_, _)
BenRepeats(stream, pos) ==
    LET r == ben_next(stream, pos, "MkvChain") IN
    IF r.kind = "ok" THEN << r.count >> \o BenRepeats(stream, r.pos) ELSE << >>

RECURSIVE Ben32Repeats(_)
Ben32Repeats(stream) ==
    LET f == pop_frame_from_overflow(stream, "MkvChain") IN
    IF f.found THEN << f.count >> \o Ben32Repeats(SubSeq(stream, f.end + 1, Len(stream)))
    ELSE << >>

RECURSIVE SeqSum(_)
SeqSum(q) == IF q = << >> THEN 0 ELSE Head(q) + SeqSum(Tail(q))

WrittenRepeats ==
    IF x_consumer = "none" THEN BenRepeats(ben, BannerLen)
    ELSE Ben32Repeats(SubSeq(xz, BannerLen + 1, Len(xz)))

\* C10: in the MkvChain encoders the repeat counter saturates at 65535: a
\* run of more than 65535 equal samples is written without a crash, every
\* repeat count written is in 1..65535, and the counts of the finished stream
\* sum to the number of samples written.
C10_RepeatSaturates ==
    (variant = "MkvChain" /\ \A i \in 1..Len(written) : written[i] # << >>) =>
        /\ enc_pc # "panicked"
        /\ enc_pc = "dropped" =>
              /\ \A i \in 1..Len(WrittenRepeats) :
                    WrittenRepeats[i] >= 1 /\ WrittenRepeats[i] <= U16 - 1
              /\ SeqSum(WrittenRepeats) = n_written

AllButLast(q) == IF q = << >> THEN q ELSE SubSeq(q, 1, Len(q) - 1)

\* C11: in MkvChain, finalizing the encoder by drop or by close writes the
\* held line and its repeat count exactly once: the finalized stream holds
\* every group once and decodes to the groups written, and before
\* finalization the stream holds every group but the last.
C11_FinalizedOnce ==
    (variant = "MkvChain" /\ \A i \in 1..Len(written) : written[i] # << >>) =>
        /\ enc_pc = "open" =>
              ben = Banner(variant)
                       \o BenLines(AllButLast(RunGroups(written)), variant)
        /\ enc_pc \in {"dropped", "closed"} =>
              ben = Banner(variant) \o BenLines(RunGroups(written), variant)
        /\ dec_pc = "done" => records = RunGroups(written)

\* The stream the encoder finished, before any damage.
FullStream ==
    Banner(variant) \o BenLines(ExpectedRecords(written, variant), variant)

HasBanner(stream) ==
    Has(stream, 0, BannerLen) /\ Bytes(stream, 0, BannerLen) \in {StandardBanner, MkvChainBanner}

\* C12: opening a BEN reader on a source whose first 17 bytes are neither
\* banner fails with the InvalidHeader error value that carries those bytes,
\* and no record is yielded; the message is the one pointing to XBEN when
\* the bytes begin with the xz magic, and the generic one otherwise.
C12_InvalidHeader ==
    (Has(ben, 0, BannerLen) /\ ~HasBanner(ben) /\ dec_pc # "unopened") =>
        /\ dec_pc = "invalid"
        /\ init_error = InitError("InvalidFileFormat", Bytes(ben, 0, BannerLen))
        /\ records = << >> /\ jsonl = << >>
        /\ DecoderInitError_fmt(init_error) =
              IF SubSeq(ben, 1, 6) = XzMagic THEN "Compressed header detected"
              ELSE "Invalid file format. Found header"

\* The reader was opened on a source the implementation accepts.
Opened ==
    /\ dec_pc # "unopened"
    /\ HasBanner(ben)
    /\ dec_impl = "src" => Bytes(ben, 0, BannerLen) = StandardBanner

\* C13: iteration of an opened BenDecoder ends normally only when the stream
\* ends at a sample boundary, and a stream that ends inside a header or
\* inside the MkvChain repeat suffix gives an error value: the iteration
\* never crashes.
C13_TruncationReported ==
    Opened =>
        /\ dec_pc # "panic"
        /\ dec_pc = "done" => rpos = Len(ben)
        /\ dec_pc = "err" => rpos < Len(ben)

\* C14: when a Standard stream is cut by one byte inside the payload of its
\* last sample, iteration yields every earlier sample unchanged and then an
\* error value for the last one; it yields no vector for it and does not end
\* normally.
C14_CutPayload ==
    (/\ variant = "Standard" /\ enc_pc = "damaged"
     /\ written # << >>
     /\ ben = SubSeq(FullStream, 1, Len(FullStream) - 1)) =>
        /\ dec_pc \in {"unopened", "open", "err"}
        /\ Len(records) < Len(written)
        /\ records = [i \in 1..Len(records) |-> << written[i], 1 >>]
        /\ jsonl = ExpectedJsonl(SubSeq(written, 1, Len(records)))
        /\ dec_pc = "err" => Len(records) = Len(written) - 1

C14_Witness ==
    /\ variant = "Standard" /\ enc_pc = "damaged"
    /\ Len(written) = 3 /\ written[3] # written[2]
    /\ ben = SubSeq(FullStream, 1, Len(FullStream) - 1)
    /\ dec_pc = "err" /\ Len(records) = 2

\* C15: when the decompressed stream ends while the overflow buffer holds
\* bytes but no complete frame, the XBEN reader reports an error: it does
\* not return success or end normally with bytes left in the overflow.
C15_PartialFrameReported ==
    (x_consumer # "none" /\ x_pc = "done" /\ ~xz_error) => overflow = << >>

\* C16: a read error of the xz decompressor in the middle of the body is
\* surfaced: once it occurred the XBEN reader has returned or yielded Err,
\* not Ok or a normal end.
C16_ReadErrorSurfaced ==
    xz_error => x_pc = "err"

\* C17: for every valid BEN stream, whatever the number of samples and the
\* length of its body, ben_encode_xben succeeds and decode_xben_to_ben of
\* its output gives a BEN stream with the same banner and the same records.
C17_BenToXben ==
    enc_pc \in {"converted", "convert_err"} =>
        /\ enc_pc = "converted"
        /\ x_pc \in {"unopened", "reading", "done"}
        /\ x_pc = "done" => ben = FullStream

\* C18: writing an empty assignment vector with the BEN bit-packer gives the
\* canonical empty line (max_val_bits = 1, max_len_bits = 1, n_bytes = 0,
\* no payload) and the encoder does not crash.
C18_EmptyLine ==
    (variant = "Standard" /\ written = << << >> >>) =>
        /\ enc_pc # "panicked"
        /\ ben = Banner(variant) \o << 1, 1, 0, 0, 0, 0 >>

\* C19: the JSON lines written from an XBEN stream are numbered 1, 2, ..., N
\* in stream order, every expanded repetition with its own number, however
\* the decompressed stream was cut into read chunks.
C19_SequentialNumbers ==
    /\ \A i \in 1..Len(x_jsonl) : x_jsonl[i].sample = i
    /\ x_pc = "done" => Assignments(x_jsonl) = written

\* The packed line each encoder makes of the vector v.
PackedLine(v) ==
    IF x_consumer = "none" THEN encode_ben_vec_from_rle(assign_to_rle(v))
    ELSE encode_ben32_line(v)

PackedLines == [i \in 1..Len(written) |-> PackedLine(written[i])]

\* The groups of a MkvChain BEN body from pos on, as (line, repeat): a line
\* is 6 header bytes and n_bytes of payload, and 2 bytes of repeat follow.
RECURSIVE BenGroups(_, _)
BenGroups(stream, pos) ==
    IF ~Has(stream, pos, 6) THEN << >>
    ELSE LET n_bytes == U32FromBe(Bytes(stream, pos + 2, 4))
             after == pos + 6 + n_bytes
         IN IF ~Has(stream, after, 2) THEN << >>
            ELSE << << Bytes(stream, pos, 6 + n_bytes),
                       U16FromBe(Bytes(stream, after, 2)) >> >>
                 \o BenGroups(stream, after + 2)

\* The groups of a MkvChain ben32 body: a frame runs to its aligned zero
\* word, and 2 bytes of repeat follow.
RECURSIVE Ben32Groups(_)
Ben32Groups(stream) ==
    LET f == pop_frame_from_overflow(stream, "MkvChain") IN
    IF f.found
    THEN << << SubSeq(stream, 1, f.end - 2), f.count >> >>
         \o Ben32Groups(SubSeq(stream, f.end + 1, Len(stream)))
    ELSE << >>

WrittenGroups ==
    IF x_consumer = "none" THEN BenGroups(ben, BannerLen)
    ELSE Ben32Groups(SubSeq(xz, BannerLen + 1, Len(xz)))

\* C20: in a finalized MkvChain stream consecutive samples share one repeat
\* record exactly when their packed lines are byte-equal: no two adjacent
\* groups hold the same line, and the groups are the maximal runs of equal
\* packed lines of the input, each with its run length as repeat count.
C20_GroupsAreMaximalRuns ==
    (variant = "MkvChain" /\ enc_pc = "dropped") =>
        /\ \A i \in 1..(Len(WrittenGroups) - 1) :
              WrittenGroups[i][1] # WrittenGroups[i + 1][1]
        /\ WrittenGroups = RunGroups(PackedLines)

C20_Witness ==
    /\ variant = "MkvChain" /\ enc_pc = "dropped"
    /\ x_consumer # "none"
    /\ Len(written) = 3
    /\ written[1] = written[2] /\ written[3] # written[2]
    /\ Counts(WrittenGroups) = << 2, 1 >>

\* The bytes of the BEN stream after the banner.
BenBody == SubSeq(ben, BannerLen + 1, Len(ben))

S1Sample == << 1, 1, 1, 2, 2, 2 >>
S1SecondSample == << 1, 1, 2, 2, 1, 2 >>
S1Line == << 2, 2, 0, 0, 0, 1, 123 >>
S1SecondLine == << 2, 2, 0, 0, 0, 2, 106, 89 >>

\* C21 as stated: the Standard encoding of the single sample [1,1,1,2,2,2]
\* is, after the banner, 02 02 00 00 00 01 7B 02 02 00 00 00 02 6A 59.
C21_S1BodyAsStated ==
    (variant = "Standard" /\ enc_pc = "dropped" /\ written = << S1Sample >>) =>
        BenBody = S1Line \o S1SecondLine

\* C21 as amended: the Standard encoding of the single sample [1,1,1,2,2,2]
\* is, after the banner, exactly the 7 bytes 02 02 00 00 00 01 7B.
C21_S1Body ==
    (variant = "Standard" /\ enc_pc = "dropped" /\ written = << S1Sample >>) =>
        BenBody = S1Line

C21_Witness ==
    /\ variant = "Standard" /\ enc_pc = "dropped"
    /\ written = << S1Sample >>
    /\ ben = StandardBanner \o S1Line

\* C22: the ben tool exits with status 0 on success and with a non-zero
\* status on any failure: an error returned by the mode's operation, a
\* missing sample number in read mode, an unsupported input file type.
C22_ExitStatus ==
    cli.pc = "exited" =>
        /\ cli.failure = "none" => cli.status = 0
        /\ cli.failure \in {"operation_err", "missing_sample_number",
                            "unsupported_type"} => cli.status # 0

\* The least number of bits that hold x.
WidthOf(x) == CHOOSE k \in 0..16 : 2 ^ k > x /\ (k = 0 \/ 2 ^ (k - 1) <= x)

\* The lines of a Standard BEN body from pos on, cut by their n_bytes
\* fields; what is left when a header or a payload is short stays as a
\* last piece.
RECURSIVE StandardLines(_, _)
StandardLines(stream, pos) ==
    IF pos >= Len(stream) THEN << >>
    ELSE IF ~Has(stream, pos, 6) THEN << Bytes(stream, pos, Len(stream) - pos) >>
    ELSE LET n_bytes == U32FromBe(Bytes(stream, pos + 2, 4)) IN
         IF ~Has(stream, pos + 6, n_bytes)
         THEN << Bytes(stream, pos, Len(stream) - pos) >>
         ELSE << Bytes(stream, pos, 6 + n_bytes) >>
              \o StandardLines(stream, pos + 6 + n_bytes)

LargestValue(runs) == SetMax({runs[i][1] : i \in 1..Len(runs)})
LargestLength(runs) == SetMax({runs[i][2] : i \in 1..Len(runs)})

\* What C23 says of the line written for the run list runs.
WidthsAndLength(line, runs) ==
    LET max_val_bits == line[1]
        max_len_bits == line[2]
        n_bytes == U32FromBe(SubSeq(line, 3, 6))
    IN /\ Len(line) >= 6
       /\ max_val_bits = Max(1, WidthOf(LargestValue(runs)))
       /\ max_len_bits = WidthOf(LargestLength(runs))
       /\ max_val_bits >= 1 /\ max_len_bits >= 1
       /\ n_bytes = (Len(runs) * (max_val_bits + max_len_bits) + 7) \div 8
       /\ Len(line) - 6 = n_bytes

\* C23: every BEN line written from a non-empty run list has max_val_bits =
\* max(1, width of the largest value), max_len_bits = width of the largest
\* length, both at least 1, and n_bytes = ceil(|runs| * (max_val_bits +
\* max_len_bits) / 8), which is the number of payload bytes that follow the
\* 6-byte header in the output.
C23_WidthsAndLength ==
    (variant = "Standard" /\ enc_pc \in {"open", "dropped"}) =>
        LET lines == StandardLines(ben, BannerLen) IN
        /\ Len(lines) = Len(written)
        /\ \A i \in 1..Len(lines) :
              WidthsAndLength(lines[i], assign_to_rle(written[i]))

C23_Witness ==
    /\ variant = "Standard" /\ enc_pc = "dropped"
    /\ written = << << 0, 0 >>, << 300, 1, 1 >> >>
    /\ BenBody = << 1, 2, 0, 0, 0, 1, 64 >> \o << 9, 2, 0, 0, 0, 3, 150, 32, 24 >>

\* The run words of a ben32 frame, as (value, length), up to its zero word.
RECURSIVE FrameRuns(_)
FrameRuns(frame) ==
    IF Len(frame) < 4 \/ SubSeq(frame, 1, 4) = << 0, 0, 0, 0 >> THEN << >>
    ELSE << << U16FromBe(SubSeq(frame, 1, 2)), U16FromBe(SubSeq(frame, 3, 4)) >> >>
         \o FrameRuns(SubSeq(frame, 5, Len(frame)))

\* Adjacent runs of one value merged into one, the lengths added.
RECURSIVE MergeRuns(_)
MergeRuns(runs) ==
    IF runs = << >> THEN << >>
    ELSE LET g == MergeRuns(SubSeq(runs, 1, Len(runs) - 1))
             n == Len(g)
             last == runs[Len(runs)]
         IN IF n > 0 /\ g[n][1] = last[1]
            THEN [g EXCEPT ![n] = << g[n][1], g[n][2] + last[2] >>]
            ELSE Append(g, last)

\* C24: the ben32 line encoder starts a new run when the value changes or
\* the run length reaches 65535: a run of more than 65535 equal values is
\* split, every length written is in 1..65535, and the runs written expand
\* to the vector (their merged runs are the maximal runs of the vector).
C24_RunsSplit ==
    call.f = "encode_ben32_line" =>
        /\ call.kind = "ok"
        /\ \A i \in 1..Len(FrameRuns(call.ret)) :
              /\ FrameRuns(call.ret)[i][2] >= 1
              /\ FrameRuns(call.ret)[i][2] <= U16 - 1
        /\ MergeRuns(FrameRuns(call.ret))
              = MergeRuns(<< << call.assign, call.repeated >> >>
                          \o RunGroups(call.tail))

\* The bits of a byte sequence, most significant bit first.
BitsOf(bytes) ==
    [k \in 1..(8 * Len(bytes)) |->
        (bytes[((k - 1) \div 8) + 1] \div (2 ^ (7 - ((k - 1) % 8)))) % 2]

RECURSIVE BitsValue(_)
BitsValue(bits) ==
    IF bits = << >> THEN 0
    ELSE 2 * BitsValue(SubSeq(bits, 1, Len(bits) - 1)) + bits[Len(bits)]

\* The whole fields of val_bits + len_bits bits in a payload, as (value,
\* length), those of length 0 left out.
RECURSIVE FieldsOf(_, _, _)
FieldsOf(bits, val_bits, len_bits) ==
    IF Len(bits) < val_bits + len_bits THEN << >>
    ELSE LET val == BitsValue(SubSeq(bits, 1, val_bits))
             len == BitsValue(SubSeq(bits, val_bits + 1, val_bits + len_bits))
             rest == FieldsOf(SubSeq(bits, val_bits + len_bits + 1, Len(bits)),
                              val_bits, len_bits)
         IN IF len > 0 THEN << << val, len >> >> \o rest ELSE rest

\* C26: decode_ben_line returns no run of length 0: for the widths of the
\* format (1..16 bits each) it returns the fields of the payload in order
\* without those whose length is 0, so padding after the last run is
\* dropped, a payload of zero lengths only and a line with n_bytes = 0 give
\* the empty run list, and the call returns.
C26_NoZeroRuns ==
    call.f = "decode_ben_line" =>
        /\ \A i \in 1..Len(call.output_rle) : call.output_rle[i][2] > 0
        /\ (call.max_val_bits \in 1..16 /\ call.max_len_bits \in 1..16) =>
              /\ call.kind = "ok"
              /\ call.output_rle = FieldsOf(BitsOf(call.assign_bits),
                                            call.max_val_bits, call.max_len_bits)

C26_Witness ==
    /\ call.f = "decode_ben_line"
    /\ call.max_val_bits = 2 /\ call.max_len_bits = 2
    /\ call.assign_bits = << 112, 0 >>
    /\ call.kind = "ok"
    /\ call.output_rle = << << 1, 3 >> >>

\* C30: decode_ben_line returns, with a run list or an error value,
\* whatever the header holds: any bytes as max_val_bits and max_len_bits (0,
\* more than 16, a sum above 255) and any n_bytes whose payload is there;
\* it neither runs forever nor crashes.
C30_AnyHeaderReturns ==
    call.f = "decode_ben_line" => call.kind = "ok"

\* The n bits of x, most significant bit first.
ToBits(x, n) == [k \in 1..n |-> (x \div (2 ^ (n - k))) % 2]

\* The fields of the runs one after the other: val_bits bits of value, then
\* len_bits bits of length.
RECURSIVE RunBits(_, _, _)
RunBits(runs, val_bits, len_bits) ==
    IF runs = << >> THEN << >>
    ELSE ToBits(runs[1][1], val_bits) \o ToBits(runs[1][2], len_bits)
         \o RunBits(Tail(runs), val_bits, len_bits)

ZeroBits(n) == [k \in 1..n |-> 0]

\* The payload of line is the fields of runs, filled up to whole bytes with
\* zero bits at the end.
PackedMsbFirst(line, runs) ==
    LET field_bits == RunBits(runs, line[1], line[2])
        payload_bits == BitsOf(SubSeq(line, 7, Len(line)))
    IN /\ Len(payload_bits) >= Len(field_bits)
       /\ Len(payload_bits) - Len(field_bits) < 8
       /\ payload_bits = field_bits \o ZeroBits(Len(payload_bits) - Len(field_bits))

\* C25: the payload of every BEN line is the runs in order, each as
\* max_val_bits bits of value then max_len_bits bits of length, most
\* significant bit first and across byte boundaries, the last byte filled
\* with zero bits in its low positions; the Standard encoding of the samples
\* [1,1,1,2,2,2] and [1,1,2,2,1,2] is the banner followed by
\* 02 02 00 00 00 01 7B 02 02 00 00 00 02 6A 59.
C25_BitOrder ==
    (variant = "Standard" /\ enc_pc \in {"open", "dropped"}) =>
        /\ LET lines == StandardLines(ben, BannerLen) IN
           /\ Len(lines) = Len(written)
           /\ \A i \in 1..Len(lines) :
                 Len(lines[i]) >= 6
                 /\ PackedMsbFirst(lines[i], assign_to_rle(written[i]))
        /\ (enc_pc = "dropped" /\ written = << S1Sample, S1SecondSample >>) =>
              ben = StandardBanner \o S1Line \o S1SecondLine

C25_Witness ==
    /\ variant = "Standard" /\ enc_pc = "dropped"
    /\ written = << S1Sample, S1SecondSample >>
    /\ BenBody = << 2, 2, 0, 0, 0, 1, 123, 2, 2, 0, 0, 0, 2, 106, 89 >>

\* The expanded index of the first sample of the record up[k].
FirstIndexOf(k) == SumCounts(up, k - 1) + 1

\* C27: with Range{start, end}, once the record that covers the expanded
\* index end has been consumed (sample >= end), a call of next returns None
\* and changes nothing, at the next call and at every later one, and no
\* call ever pulls a record whose first expanded index is greater than end.
C27_RangeStops ==
    [][sel.kind = "Range" =>
          /\ sub_sample >= sel.end =>
                /\ up_pos' = up_pos /\ sub_out' = sub_out
                /\ sub_sample' = sub_sample
                /\ sub_pc' \in {"done", "done_again"}
          /\ up_pos' > up_pos => FirstIndexOf(up_pos') <= sel.end]_vars

C27_Witness ==
    /\ sel.kind = "Range"
    /\ sub_pc = "done_again"
    /\ sub_sample >= sel.end
    /\ up_pos < Len(up)
    /\ Len(sub_out) > 0

\* The groups (line, repeat) written out one after the other.
RECURSIVE GroupBytes(_)
GroupBytes(groups) ==
    IF groups = << >> THEN << >>
    ELSE groups[1][1] \o U16BeBytes(groups[1][2]) \o GroupBytes(Tail(groups))

\* The group the encoder holds back, if any.
HeldGroups ==
    IF count > 0 THEN << << previous_sample, count >> >> ELSE << >>

RECURSIVE TrueTerminators(_, _)
TrueTerminators(frames, start) ==
    IF frames = << >> THEN {}
    ELSE {start + 4 * Len(frames[1].runs) + 3}
         \cup TrueTerminators(Tail(frames), start + 4 * Len(frames[1].runs) + 6)

RECURSIVE SumRepeats(_)
SumRepeats(frames) ==
    IF frames = << >> THEN 0 ELSE frames[1].count + SumRepeats(Tail(frames))

\* C29: in a well-formed MkvChain ben32 stream (run lengths and repeat
\* counts at least 1) the scan in steps of 2 bytes from the beginning of a
\* frame finds four zero bytes at the frame terminators and nowhere else:
\* the whole-buffer scan ends behind the last frame with the repeat counts
\* added up, and the first frame is popped at its own end with its own
\* count.
C29_OnlyTrueTerminators ==
    call.f = "mkv_scan" =>
        /\ call.hits = TrueTerminators(call.frames, 0)
        /\ call.scan.last_valid_assignment = Len(call.overflow)
        /\ call.scan.lines = SumRepeats(call.frames)
        /\ call.popped.found
        /\ call.popped.end = 4 * Len(call.frames[1].runs) + 6
        /\ call.popped.count = call.frames[1].count

C29_Witness ==
    /\ call.f = "mkv_scan"
    /\ call.frames = << [runs |-> << << 0, 256 >>, << 0, 1 >> >>, count |-> 256],
                        [runs |-> << >>, count |-> 1] >>
    /\ call.hits = {11, 17}

====
